---- MODULE Spec2Model ----
(***************************************************************************)
(* Model of the segmentation core of js-segment-annotator.                 *)
(*                                                                         *)
(*   PFSegmentation   (graph-based, Felzenszwalb/Huttenlocher):            *)
(*       smoothImage -> createEdges -> sortEdgesByWeights -> segmentGraph  *)
(*       -> createIndexMap -> options.callback                             *)
(*   SLICSegmentation (superpixel clustering, SLICO variant):              *)
(*       rgb2xyz/xyz2lab -> computeEdge -> initializeKmeansCenters ->      *)
(*       {assignSuperpixelLabel, updateClusterParams, computeCenters,      *)
(*        computeResidualError}* -> eliminateSmallRegions -> remapLabels   *)
(*       -> options.callback                                               *)
(*   both followed by getDataURL -> options.toDataURL when that is given   *)
(*   PreSegmentation   (entry point and image loads)                       *)
(*   SegmentAnnotator  (setCurrentLabel, mouse annotation, setLabels,      *)
(*       getAnnotation, setAnnotation / _importAnnotation)                 *)
(*   Annotator         (the layered widget: _updateAnnotation, undo, redo, *)
(*       import)                                                           *)
(*                                                                         *)
(* Arrays indexed from 0 in the code are functions on 0..n-1 here; the     *)
(* edge list is a sequence.  Arithmetic the code does in Float32 is done   *)
(* here in exact or fixed-point integer arithmetic:                        *)
(*   - edge weights are kept in units of 1/WScale (floor of the square     *)
(*     root), thresholds w + c/size are kept as the pair (w, size) and     *)
(*     compared exactly;                                                   *)
(*   - the Gaussian kernel is a table of the values createGaussian         *)
(*     produces, scaled by KScale;                                         *)
(*   - Lab values are a table rounded to integers; cluster centres are    *)
(*     exact rationals (sum, mass) and squared distances exact fractions;  *)
(*     the Float32 store into distanceMap decides between centres at       *)
(*     equal distance and is kept as the table StoredAbove.                *)
(***************************************************************************)
EXTENDS Integers, Sequences, FiniteSets, TLC

VARIABLES
    alg,            \* what runs: "PF", "SLIC", "LABELS", "PRE", "ANNOTATOR"
                    \* or "WIDGET"
    pc,             \* position inside the entry point
    image,          \* the pixels of the loaded image, as the caller supplied them
    imageData,      \* the canvas ImageData the core works on: width, height, data
    options,        \* the options object, defaults filled in
    edges,          \* PF: edges.a / edges.b / edges.w as a sequence of records
    universe,       \* PF: nodes, rank, p, size, threshold
    indexMap,       \* PF: result of createIndexMap
    currentCenters, \* SLIC: currentCenters
    clusterParams,  \* SLIC: clusterParams
    segmentation,   \* SLIC / label maps: the Int32Array label map
    assigned,       \* the label map as it entered eliminateSmallRegions
    numEliminations,\* number of calls of eliminateSmallRegions so far
    iter,           \* SLIC: rounds of the clustering loop started so far
    loopExit,       \* SLIC: how the clustering loop was left
    numSegments,    \* return value of remapLabels
    result,         \* what options.callback received
    handlers,       \* which of options.callback and options.toDataURL are supplied
    calls,          \* the calls made to the caller's functions, in order
    dataURL,        \* what options.toDataURL received
    error,          \* the exception that left the entry point, if any
    annotator,      \* the fields of the SegmentAnnotator object
    exported,       \* the pixels behind the data URL getAnnotation returned
    widget          \* the fields of the Annotator object and its annotation layer

pfVars   == <<edges, universe, indexMap>>
slicVars == <<currentCenters, clusterParams, iter, loopExit>>
mapVars  == <<segmentation, assigned, numEliminations, numSegments>>
outVars  == <<result, calls, dataURL, error>>
annVars  == <<annotator, exported, widget>>
vars == <<alg, pc, image, imageData, options, edges, universe, indexMap,
          currentCenters, clusterParams, segmentation, assigned,
          numEliminations, iter, loopExit, numSegments, result,
          handlers, calls, dataURL, error, annotator, exported, widget>>

----------------------------------------------------------------------------
(* Bounds of the model *)

\* largest number of pixels of an image
MaxPixels == 6
\* largest number of pixels that differ from the background colour
MaxMarked == 2
\* largest number of pixels of a segmentation handed to SegmentAnnotator
MaxAnnotatedPixels == 2
\* largest number of segments of such a segmentation
MaxSegments == 2
\* largest number of pixels of an image segmented with every combination
\* of options.callback and options.toDataURL
MaxHandlerPixels == 2

----------------------------------------------------------------------------
(* Small helpers *)

Max(a, b) == IF a > b THEN a ELSE b
Min(a, b) == IF a < b THEN a ELSE b
Abs(a)    == IF a < 0 THEN -a ELSE a

RECURSIVE IsqrtIter(_, _, _)
IsqrtIter(n, lo, hi) ==
    IF lo >= hi THEN lo
    ELSE LET mid == (lo + hi + 1) \div 2
         IN  IF mid * mid <= n THEN IsqrtIter(n, mid, hi)
                               ELSE IsqrtIter(n, lo, mid - 1)

\* floor of the square root
Isqrt(n) == IsqrtIter(n, 0, Min(n, 46340))

RECURSIVE Gcd(_, _)
Gcd(a, b) == IF b = 0 THEN a ELSE Gcd(b, a % b)

None == "none"

----------------------------------------------------------------------------
(* Images.  A pixel is its <<R, G, B>> bytes; the alpha byte, which no     *)
(* stage reads or writes, is left out.                                     *)

Red     == <<255, 0, 0>>
Blue    == <<0, 0, 255>>
DarkRed == <<254, 0, 0>>
Gray    == <<128, 128, 128>>
White   == <<255, 255, 255>>

\* the colours the images of each entry point are drawn from; the first
\* element is the background colour
PFPalette   == <<Red, Blue, DarkRed>>
SLICPalette == <<White, Gray>>

Range(f) == {f[x] : x \in DOMAIN f}

Dims == {d \in (1..MaxPixels) \X (1..MaxPixels) : d[1] * d[2] <= MaxPixels}

\* all images of n pixels over the palette with at most MaxMarked pixels
\* that are not of the background colour
PixelData(n, palette) ==
    LET marks == {m \in SUBSET (0..(n-1)) : Cardinality(m) <= MaxMarked}
        fg    == Range(palette) \ {palette[1]}
    IN  UNION {{[p \in 0..(n-1) |-> IF p \in m THEN c[p] ELSE palette[1]]
                   : c \in [m -> fg]} : m \in marks}

\* the image of scenario B: left half one solid colour, right half another
TwoHalves(w, h) ==
    [p \in 0..(w*h - 1) |-> IF (p % w) < (w \div 2) THEN Red ELSE Blue]

TwoHalvesDims == {<<4, 1>>, <<4, 2>>}

ImagesOver(dims, palette) ==
    UNION {{[width |-> d[1], height |-> d[2], data |-> px]
               : px \in PixelData(d[1] * d[2], palette)} : d \in dims}

\* a row of four pixels whose three edge weights 0, 6 and 9 are distinct,
\* so that no two edges compare equal in sortEdgesByWeights
Staircase ==
    [width |-> 4, height |-> 1,
     data |-> [p \in 0..3 |-> <<(<<0, 0, 6, 15>>)[p + 1], 0, 0>>]]

PFImages ==
    ImagesOver(Dims, PFPalette)
      \cup {[width |-> d[1], height |-> d[2], data |-> TwoHalves(d[1], d[2])]
               : d \in TwoHalvesDims}
      \cup {Staircase}

----------------------------------------------------------------------------
(* PFSegmentation: Gaussian smoothing *)

\* resolution of the kernel table
KScale == 50000
\* resolution of the intermediate buffer `temporary` of convolveEven
TScale == 40

\* createGaussian(sigma), sigma in hundredths.  The code clamps sigma to
\* 0.01, takes ceil(4 sigma) + 1 taps exp(-0.5 (i/sigma)^2) and divides by
\* 2 * sum - mask[0].  sigma = 0 gives the taps (1, 0); sigma = 0.5 gives
\* (0.78657, 0.10645, 0.00026).  The table holds the taps times KScale,
\* the centre tap adjusted so that the mirrored kernel sums to KScale.
\* a kernel that leaves the image as it is
createGaussianUnit(sigma) == <<KScale, 0>>

createGaussian(sigma) ==
    IF sigma = 0 THEN <<50000, 0>> ELSE <<39328, 5323, 13>>

RECURSIVE TapSum(_, _, _, _, _)
\* sum over l = from .. Len(filter)-1 of filter[l] * (at(-l) + at(+l))
TapSum(filter, l, lo, hi, acc) ==
    IF l > Len(filter) - 1 THEN acc
    ELSE TapSum(filter, l + 1, lo, hi, acc + filter[l + 1] * (lo[l] + hi[l]))

\* Uint8ClampedArray store of num / den: round half to even, clamp to 0..255
ToUint8Clamped(num, den) ==
    LET q == num \div den
        r == num % den
        v == IF 2 * r > den \/ (2 * r = den /\ q % 2 = 1) THEN q + 1 ELSE q
    IN  Max(0, Min(255, v))

convolveEven(imgData, filter) ==
    LET width  == imgData.width
        height == imgData.height
        source == imgData.data
        n      == width * height
        \* horizontal filter, kept at resolution TScale
        temporary ==
          [x \in 0..(n-1) |-> [k \in 1..3 |->
             LET i == x \div width
                 j == x % width
                 lo == [l \in 1..(Len(filter) - 1) |->
                           source[i * width + Max(j - l, 0)][k]]
                 hi == [l \in 1..(Len(filter) - 1) |->
                           source[i * width + Min(j + l, width - 1)][k]]
                 sum == TapSum(filter, 1, lo, hi, filter[1] * source[x][k])
             IN  (sum + (KScale \div TScale) \div 2) \div (KScale \div TScale)]]
        \* vertical filter, stored back into the Uint8ClampedArray
        smoothed ==
          [x \in 0..(n-1) |-> [k \in 1..3 |->
             LET i == x \div width
                 j == x % width
                 lo == [l \in 1..(Len(filter) - 1) |->
                           temporary[Max(i - l, 0) * width + j][k]]
                 hi == [l \in 1..(Len(filter) - 1) |->
                           temporary[Min(i + l, height - 1) * width + j][k]]
                 sum == TapSum(filter, 1, lo, hi, filter[1] * temporary[x][k])
             IN  ToUint8Clamped(sum, KScale * TScale)]]
    IN  [imgData EXCEPT !.data = smoothed]

smoothImage(imgData, sigma) == convolveEven(imgData, createGaussian(sigma))

----------------------------------------------------------------------------
(* PFSegmentation: pixel graph *)

\* resolution of the edge weights (the code keeps them in a Float32Array)
WScale == 100

\* Math.sqrt of the squared RGB distance of pixels x1 and x2
EdgeWeight(rgbData, x1, x2) ==
    Isqrt(((rgbData[x1][1] - rgbData[x2][1]) * (rgbData[x1][1] - rgbData[x2][1])
         + (rgbData[x1][2] - rgbData[x2][2]) * (rgbData[x1][2] - rgbData[x2][2])
         + (rgbData[x1][3] - rgbData[x2][3]) * (rgbData[x1][3] - rgbData[x2][3]))
          * WScale * WScale)

Edge(rgbData, x1, x2) == [a |-> x1, b |-> x2, w |-> EdgeWeight(rgbData, x1, x2)]

\* a loop body without the edge to the upper right neighbour
EdgesAtNoUpRight(imgData, i, j) ==
    LET width  == imgData.width
        height == imgData.height
        x1     == i * width + j
    IN    (IF j < width - 1
             THEN <<Edge(imgData.data, x1, i * width + j + 1)>> ELSE <<>>)
       \o (IF i < height - 1
             THEN <<Edge(imgData.data, x1, (i + 1) * width + j)>> ELSE <<>>)
       \o (IF (j < width - 1) /\ (i < height - 1)
             THEN <<Edge(imgData.data, x1, (i + 1) * width + j + 1)>> ELSE <<>>)

\* the edges the body of the double loop of createEdges writes for pixel (i, j)
EdgesAt(imgData, i, j) ==
    LET width  == imgData.width
        height == imgData.height
        x1     == i * width + j
    IN    (IF j < width - 1
             THEN <<Edge(imgData.data, x1, i * width + j + 1)>> ELSE <<>>)
       \o (IF i < height - 1
             THEN <<Edge(imgData.data, x1, (i + 1) * width + j)>> ELSE <<>>)
       \o (IF (j < width - 1) /\ (i < height - 1)
             THEN <<Edge(imgData.data, x1, (i + 1) * width + j + 1)>> ELSE <<>>)
       \o (IF (j < width - 1) /\ (i > 0)
             THEN <<Edge(imgData.data, x1, (i - 1) * width + j + 1)>> ELSE <<>>)

RECURSIVE EdgesFrom(_, _)
EdgesFrom(imgData, x) ==
    IF x >= imgData.width * imgData.height THEN <<>>
    ELSE EdgesAt(imgData, x \div imgData.width, x % imgData.width)
            \o EdgesFrom(imgData, x + 1)

\* edgeSize of createEdges, the length of the arrays it allocates
edgeSize(width, height) == 4 * width * height - 3 * width - 3 * height + 2

\* edges of the pixel array read as a single row: each pixel is linked to
\* the next in scan order, the last of a row to the first of the next row
createEdgesOneRow(imgData) ==
    EdgesFrom([width |-> imgData.width * imgData.height, height |-> 1,
               data |-> imgData.data], 0)

createEdges(imgData) == EdgesFrom(imgData, 0)

\* order.sort(function(i, j) { return w[i] - w[j]; }): ascending weight,
\* edges of equal weight keep their order (Array.prototype.sort is stable)
sortEdgesByWeights(es) ==
    LET n == Len(es)
        before(j, i) == es[j].w < es[i].w \/ (es[j].w = es[i].w /\ j < i)
        pos(i) == Cardinality({j \in 1..n : before(j, i)}) + 1
    IN  [k \in 1..n |-> es[CHOOSE i \in 1..n : pos(i) = k]]

----------------------------------------------------------------------------
(* PFSegmentation: disjoint-set forest *)

\* a universe whose size array is left as new Int32Array gave it
createUniverseNoSize(nodes, c) ==
    [nodes     |-> nodes,
     rank      |-> [i \in 0..(nodes-1) |-> 0],
     p         |-> [i \in 0..(nodes-1) |-> i],
     size      |-> [i \in 0..(nodes-1) |-> 0],
     threshold |-> [i \in 0..(nodes-1) |-> [w |-> 0, n |-> 1]]]

\* threshold[i] holds the Float32 value w + c / n as the pair (w, n);
\* createUniverse stores c itself, which is 0 + c / 1
createUniverse(nodes, c) ==
    [nodes     |-> nodes,
     rank      |-> [i \in 0..(nodes-1) |-> 0],
     p         |-> [i \in 0..(nodes-1) |-> i],
     size      |-> [i \in 0..(nodes-1) |-> 1],
     threshold |-> [i \in 0..(nodes-1) |-> [w |-> 0, n |-> 1]]]

RECURSIVE Root(_, _)
\* the vertex pointing to itself that the while loop of findNode reaches
Root(p, i) == IF i = p[i] THEN i ELSE Root(p, p[i])

\* the universe after findNode(universe, index): universe.p[index] = root
findNode(u, index) == [u EXCEPT !.p[index] = Root(u.p, index)]

\* joinNode that forgets universe.nodes-- when a becomes the parent
joinNodeKeepsCount(u, a, b) ==
    IF u.rank[a] > u.rank[b]
        THEN [u EXCEPT !.p[b] = a,
                       !.size[a] = u.size[a] + u.size[b]]
        ELSE [u EXCEPT !.p[a] = b,
                       !.size[b] = u.size[b] + u.size[a],
                       !.rank[b] = IF u.rank[a] = u.rank[b]
                                      THEN u.rank[b] + 1 ELSE u.rank[b],
                       !.nodes = u.nodes - 1]

joinNode(u, a, b) ==
    IF u.rank[a] > u.rank[b]
        THEN [u EXCEPT !.p[b] = a,
                       !.size[a] = u.size[a] + u.size[b],
                       !.nodes = u.nodes - 1]
        ELSE [u EXCEPT !.p[a] = b,
                       !.size[b] = u.size[b] + u.size[a],
                       !.rank[b] = IF u.rank[a] = u.rank[b]
                                      THEN u.rank[b] + 1 ELSE u.rank[b],
                       !.nodes = u.nodes - 1]

\* the merge predicate with < in place of <=
WithinThresholdStrict(w, t, c) == (w - t.w) * t.n < c * WScale

\* edges.w[i] <= universe.threshold[r], with threshold[r] = t.w + c / t.n
WithinThreshold(w, t, c) == (w - t.w) * t.n <= c * WScale

\* a loop iteration that joins but leaves the threshold of the new root
MergeEdgeKeepsThreshold(u, e, c) ==
    LET u1 == findNode(u, e.a)
        a  == Root(u.p, e.a)
        u2 == findNode(u1, e.b)
        b  == Root(u1.p, e.b)
    IN  IF a # b /\ WithinThreshold(e.w, u2.threshold[a], c)
                 /\ WithinThreshold(e.w, u2.threshold[b], c)
            THEN findNode(joinNode(u2, a, b), a)
            ELSE u2

\* one iteration of the bottom-up merge loop of segmentGraph
MergeEdge(u, e, c) ==
    LET u1 == findNode(u, e.a)
        a  == Root(u.p, e.a)
        u2 == findNode(u1, e.b)
        b  == Root(u1.p, e.b)
    IN  IF a # b /\ WithinThreshold(e.w, u2.threshold[a], c)
                 /\ WithinThreshold(e.w, u2.threshold[b], c)
            THEN LET u3 == joinNode(u2, a, b)
                     a2 == Root(u3.p, a)
                     u4 == findNode(u3, a)
                 IN  [u4 EXCEPT !.threshold[a2] =
                                   [w |-> e.w, n |-> u4.size[a2]]]
            ELSE u2

\* the small-component loop joining only when both sides are small
MergeSmallBoth(u, e, minSize) ==
    LET u1 == findNode(u, e.a)
        a  == Root(u.p, e.a)
        u2 == findNode(u1, e.b)
        b  == Root(u1.p, e.b)
    IN  IF a # b /\ (u2.size[a] < minSize /\ u2.size[b] < minSize)
            THEN joinNode(u2, a, b)
            ELSE u2

\* one iteration of the "merge small components" loop of segmentGraph
MergeSmall(u, e, minSize) ==
    LET u1 == findNode(u, e.a)
        a  == Root(u.p, e.a)
        u2 == findNode(u1, e.b)
        b  == Root(u1.p, e.b)
    IN  IF a # b /\ (u2.size[a] < minSize \/ u2.size[b] < minSize)
            THEN joinNode(u2, a, b)
            ELSE u2

RECURSIVE MergePass(_, _, _, _)
\* the universe after the first k iterations of the bottom-up merge loop
MergePass(u, es, c, k) ==
    IF k = 0 THEN u ELSE MergeEdge(MergePass(u, es, c, k - 1), es[k], c)

RECURSIVE SmallPass(_, _, _, _)
\* the universe after the first k iterations of the small-component loop
SmallPass(u, es, minSize, k) ==
    IF k = 0 THEN u ELSE MergeSmall(SmallPass(u, es, minSize, k - 1), es[k], minSize)

\* segmentGraph on edges that are already created and sorted
segmentGraph(imgData, es, opts) ==
    LET u0 == createUniverse(imgData.width * imgData.height, opts.threshold)
        u1 == MergePass(u0, es, opts.threshold, Len(es))
    IN  SmallPass(u1, es, opts.minSize, Len(es))

\* a loop body that never finds its component in nodeIds: every pixel gets
\* the next id
IndexStepPerPixel(s, x) ==
    [universe |-> findNode(s.universe, x),
     nodeIds  |-> (Root(s.universe.p, x) :> s.lastId) @@ s.nodeIds,
     lastId   |-> s.lastId + 1,
     indexMap |-> (x :> s.lastId) @@ s.indexMap]

\* the body of the double loop of createIndexMap for pixel x; s holds the
\* universe (findNode compresses), nodeIds, lastId and indexMap
IndexStep(s, x) ==
    LET component == Root(s.universe.p, x)
        known     == component \in DOMAIN s.nodeIds
        index     == IF known THEN s.nodeIds[component] ELSE s.lastId
    IN  [universe |-> findNode(s.universe, x),
         nodeIds  |-> IF known THEN s.nodeIds
                      ELSE (component :> s.lastId) @@ s.nodeIds,
         lastId   |-> IF known THEN s.lastId ELSE s.lastId + 1,
         indexMap |-> (x :> index) @@ s.indexMap]

RECURSIVE IndexScan(_, _, _)
\* state of the double loop of createIndexMap after pixels 0..x-1
IndexScan(u, n, x) ==
    IF x = 0
        THEN [universe |-> u, nodeIds |-> << >>, lastId |-> 0, indexMap |-> << >>]
        ELSE IndexStep(IndexScan(u, n, x - 1), x - 1)

createIndexMap(u, imgData) ==
    IndexScan(u, imgData.width * imgData.height,
              imgData.width * imgData.height).indexMap

----------------------------------------------------------------------------
(* Labels as pixels: the bit operators of the label encoding, on           *)
(* non-negative integers below 2^31, and getDataURL                        *)

RECURSIVE BitAnd(_, _)
\* a & b
BitAnd(a, b) ==
    IF a = 0 \/ b = 0 THEN 0
    ELSE (a % 2) * (b % 2) + 2 * BitAnd(a \div 2, b \div 2)

RECURSIVE BitOr(_, _)
\* a | b
BitOr(a, b) ==
    IF a = 0 THEN b
    ELSE IF b = 0 THEN a
    ELSE Max(a % 2, b % 2) + 2 * BitOr(a \div 2, b \div 2)

\* a << n, for results below 2^31
ShiftLeft(a, n) == a * 2^n

\* a >>> n
ShiftRightUnsigned(a, n) == a \div 2^n

\* the three colour bytes getDataURL writes for one label
EncodeBytes(value) ==
    <<BitAnd(value, 255),
      BitAnd(ShiftRightUnsigned(value, 8), 255),
      BitAnd(ShiftRightUnsigned(value, 16), 255)>>

\* the pixels getDataURL puts on its canvas: createImageData gives
\* transparent black, the loop writes the three colour bytes and leaves
\* alpha 0
getDataURL(width, height, map) ==
    [i \in DOMAIN map |-> EncodeBytes(map[i]) \o <<0>>]

\* ReferenceError: indexMap is not defined
ReferenceError == "ReferenceError"

----------------------------------------------------------------------------
(* SegmentAnnotator: label definitions, annotations, export and import.    *)
(* this.labels is kept by its length (numLabels), the colours of the       *)
(* annotation layer are not kept.                                          *)

\* null, as this.currentLabel holds it before setCurrentLabel; like null
\* it compares below every labels.length and equals no label index
Null == 0 - 1

\* _initializePixelsIndex: the pixels of segment i, in scan order
pixelsMap(map, i) == {x \in DOMAIN map : map[x] = i}

\* pixels[0], the first pixel of a segment in scan order
FirstPixel(pixels) == CHOOSE x \in pixels : \A y \in pixels : x <= y

\* _renderAnnotation: walks the segments with currentLabel set to each
\* annotation, or to 0 when that is not below labels.length, and has
\* _updateAnnotation store currentLabel back into annotations; then
\* restores the caller's currentLabel, or 0 when that is out of range
RenderAnnotations(annotations, numLabels) ==
    [i \in DOMAIN annotations |->
        IF annotations[i] >= numLabels THEN 0 ELSE annotations[i]]

RenderCurrent(currentLabel, numLabels) ==
    IF currentLabel >= numLabels THEN 0 ELSE currentLabel

\* an encoder that writes two colour bytes only
_setEncodedLabelTwoBytes(label) ==
    <<BitAnd(label, 255), BitAnd(ShiftRightUnsigned(label, 8), 255), 0, 255>>

\* the four bytes getAnnotation writes for one pixel
_setEncodedLabel(label) == EncodeBytes(label) \o <<255>>

\* the label _importAnnotation reads from the bytes of one pixel
_getEncodedLabel(bytes) ==
    BitOr(BitOr(bytes[1], ShiftLeft(bytes[2], 8)), ShiftLeft(bytes[3], 16))

\* getAnnotation: the pixels put on the canvas behind the data URL
getAnnotation(a) ==
    [i \in DOMAIN a.indexMap |-> _setEncodedLabel(a.annotations[a.indexMap[i]])]

\* histogram[label] of _importAnnotation for the pixels of one segment
Histogram(sourceData, pixels, label) ==
    Cardinality({x \in pixels : _getEncodedLabel(sourceData[x]) = label})

\* the for-in loop over histogram: keys are visited in ascending order and
\* replace dominantLabel when their count is strictly larger; when the
\* initial dominantLabel is not a key its count is undefined and no
\* comparison succeeds
RECURSIVE DominantScan(_, _, _, _)
DominantScan(sourceData, pixels, keys, dominantLabel) ==
    IF keys = {} THEN dominantLabel
    ELSE LET label == CHOOSE k \in keys : \A j \in keys : k <= j
         IN  DominantScan(sourceData, pixels, keys \ {label},
                 IF Histogram(sourceData, pixels, label)
                        > Histogram(sourceData, pixels, dominantLabel)
                    THEN label ELSE dominantLabel)

\* dominantLabel of one segment: it starts as the first byte of the
\* segment's first pixel; a key taken from the for-in loop is a string,
\* kept here by its numeric value, which is what >= compares
DominantLabel(sourceData, pixels, numLabels) ==
    LET keys  == {_getEncodedLabel(sourceData[x]) : x \in pixels}
        first == sourceData[FirstPixel(pixels)][1]
        d     == IF first \in keys
                    THEN DominantScan(sourceData, pixels, keys, first)
                    ELSE first
    IN  IF d >= numLabels THEN 0 ELSE d

\* _importAnnotation, the body of image.onload
_importAnnotation(a, sourceData) ==
    [i \in DOMAIN a.annotations |->
        DominantLabel(sourceData, pixelsMap(a.indexMap, i), a.numLabels)]

----------------------------------------------------------------------------
(* SLICSegmentation: colour conversion, gradient map and seeding *)

\* xyz2lab(rgb2xyz(...)) of one pixel, as <<L, a, b>> rounded to integers.
\* With gamma 2.2 and the equal-energy white point the code gives
\* (99.99999, 0.00002, 0.000004) for white and (53.976, 0.00001, 0.000003)
\* for the gray (128, 128, 128).
rgb2lab(rgb) ==
    CASE rgb = White -> <<100, 0, 0>>
      [] rgb = Gray  -> <<54, 0, 0>>

labOf(imgData) ==
    [x \in 0..(imgData.width * imgData.height - 1) |-> rgb2lab(imgData.data[x])]

Sq(v) == v * v

\* the edge map after computeEdge: zero on the border
computeEdge(lab, w, h) ==
    [x \in 0..(w*h - 1) |->
        LET px == x % w
            py == x \div w
        IN  IF 1 <= px /\ px < w - 1 /\ 1 <= py /\ py < h - 1
                THEN Sq(lab[x - 1][1] - lab[x + 1][1]) + Sq(lab[x + w][1] - lab[x - w][1])
                   + Sq(lab[x - 1][2] - lab[x + 1][2]) + Sq(lab[x + w][2] - lab[x - w][2])
                   + Sq(lab[x - 1][3] - lab[x + 1][3]) + Sq(lab[x + w][3] - lab[x - w][3])
                ELSE 0]

\* parseInt(imWidth / regionSize, 10) for a positive regionSize
\* the number of columns of centres rounded up instead of truncated
NumRegionsXCeil(imgData, opts) ==
    (imgData.width + opts.regionSize - 1) \div opts.regionSize

NumRegionsX(imgData, opts) == imgData.width \div opts.regionSize
NumRegionsY(imgData, opts) == imgData.height \div opts.regionSize
NumRegions(imgData, opts)  == NumRegionsX(imgData, opts) * NumRegionsY(imgData, opts)

\* initial value of clusterParams[2r] ("10*10")
InitialColorParam == 100

\* A centre is the record [s, m]: its five coordinates x, y, L, a, b are
\* s[1]/m .. s[5]/m.  initializeKmeansCenters writes pixel values (m = 1).
initializeKmeansCenters(lab, edgeMap, numRegionsX, numRegionsY, regionSize, imW, imH) ==
    [r \in 0..(numRegionsX * numRegionsY - 1) |->
        LET u  == r % numRegionsX
            v  == r \div numRegionsX
            \* Math.round(regionSize * (u + 0.5)), clamped to the image
            x  == Max(Min(regionSize * u + (regionSize + 1) \div 2, imW - 1), 0)
            y  == Max(Min(regionSize * v + (regionSize + 1) \div 2, imH - 1), 0)
            nb == {yp * imW + xp : xp \in Max(0, x - 1)..Min(imW - 1, x + 1),
                                   yp \in Max(0, y - 1)..Min(imH - 1, y + 1)}
            \* first pixel in scan order with the smallest edge response
            c  == CHOOSE q \in nb : \A q2 \in nb :
                      edgeMap[q] < edgeMap[q2] \/ (edgeMap[q] = edgeMap[q2] /\ q <= q2)
        IN  [s |-> <<c % imW, c \div imW, lab[c][1], lab[c][2], lab[c][3]>>,
             m |-> 1]]

initialClusterParams(numRegions, regionSize) ==
    [r \in 0..(numRegions - 1) |-> <<InitialColorParam, regionSize * regionSize>>]

----------------------------------------------------------------------------
(* SLICSegmentation: one round of the clustering loop *)

\* the initial entry of distanceMap, larger than every distance
Infinity == [num |-> 1, den |-> 0]

\* Math.round of the coordinate s / m (s, m >= 0)
RoundCoord(sv, m) == (2 * sv + m) \div (2 * m)

\* the square of `distance` for pixel x and the given centre, as a fraction
Distance2(lab, x, imW, centre, params) ==
    LET cx == RoundCoord(centre.s[1], centre.m)
        cy == RoundCoord(centre.s[2], centre.m)
        m  == centre.m
        spatial == Sq((x % imW) - cx) + Sq((x \div imW) - cy)
        \* appearance * m^2
        appearance == Sq(lab[x][1] * m - centre.s[3])
                    + Sq(lab[x][2] * m - centre.s[4])
                    + Sq(lab[x][3] * m - centre.s[5])
    IN  [num |-> appearance * params[2] + spatial * params[1] * m * m,
         den |-> params[1] * params[2] * m * m]

\* distanceMap is a Float32Array: it holds the Float32 nearest to the
\* distance stored.  StoredAbove lists, among the squared distances at which
\* two centres tie in these images, those whose square root is rounded
\* upwards by the store, each as <<numerator, denominator>> in lowest terms
StoredAbove == {<<2141, 100>>}

\* distance < distanceMap[x]: the distance is compared in double precision
\* with the Float32 stored for the pixel
DistLess(d, stored) ==
    \/ stored.den = 0
    \/ /\ stored.den # 0
       /\ LET g  == Gcd(d.den, stored.den)
              l  == d.num * (stored.den \div g)
              r  == stored.num * (d.den \div g)
              gs == Gcd(stored.num, stored.den)
          IN  \/ l < r
              \/ /\ l = r
                 /\ <<stored.num \div gs, stored.den \div gs>> \in StoredAbove

\* the pixels of the window [cx - S, cx + S) x [cy - S, cy + S)
InWindow(x, imW, imH, centre, S) ==
    LET cx == RoundCoord(centre.s[1], centre.m)
        cy == RoundCoord(centre.s[2], centre.m)
    IN  /\ Max(0, cx - S) <= x % imW    /\ x % imW    < Min(imW, cx + S)
        /\ Max(0, cy - S) <= x \div imW /\ x \div imW < Min(imH, cy + S)

\* the body of the region loop of assignSuperpixelLabel for one region
AssignRegion(prev, lab, centers, params, S, imW, imH, region) ==
    LET closer ==
            {x \in 0..(imW * imH - 1) :
                /\ InWindow(x, imW, imH, centers[region], S)
                /\ DistLess(Distance2(lab, x, imW, centers[region], params[region]),
                            prev.distanceMap[x])}
    IN  [distanceMap |->
            [x \in 0..(imW * imH - 1) |->
                IF x \in closer
                    THEN Distance2(lab, x, imW, centers[region], params[region])
                    ELSE prev.distanceMap[x]],
         segmentation |->
            [x \in 0..(imW * imH - 1) |->
                IF x \in closer THEN region ELSE prev.segmentation[x]]]

RECURSIVE AssignScan(_, _, _, _, _, _, _, _)
\* distanceMap and segmentation after the region loop of
\* assignSuperpixelLabel has handled regions 0..r-1
AssignScan(lab, seg, centers, params, S, imW, imH, r) ==
    IF r = 0
        THEN [distanceMap |-> [x \in 0..(imW * imH - 1) |-> Infinity],
              segmentation |-> seg]
        ELSE AssignRegion(AssignScan(lab, seg, centers, params, S, imW, imH, r - 1),
                          lab, centers, params, S, imW, imH, r - 1)

\* mcMap and msMap: Float32Arrays of numPixels zeros that no code writes
mcMap(x) == 0
msMap(x) == 0

\* the second loop of assignSuperpixelLabel: raise a parameter of the
\* pixel's cluster to the pixel's entry of mcMap / msMap if that is larger
RaiseParams(params, seg, numPixels) ==
    [r \in DOMAIN params |->
        LET mine == {x \in 0..(numPixels - 1) : seg[x] = r}
            top(f(_), cur) ==
                IF \E x \in mine : cur < f(x)
                    THEN CHOOSE v \in {f(x) : x \in mine} :
                             \A x \in mine : f(x) <= v
                    ELSE cur
        IN  <<top(mcMap, params[r][1]), top(msMap, params[r][2])>>]

assignSuperpixelLabel(lab, seg, centers, params, numRegions, S, imW, imH) ==
    LET a == AssignScan(lab, seg, centers, params, S, imW, imH, numRegions)
    IN  [segmentation  |-> a.segmentation,
         distanceMap   |-> a.distanceMap,
         clusterParams |-> RaiseParams(params, a.segmentation, imW * imH)]

\* updateClusterParams: indexes mcMap / msMap by the region, with running
\* maxima mc / ms that start at zero
updateClusterParams(seg, params) ==
    [r \in DOMAIN params |->
        IF \E x \in DOMAIN seg : seg[x] = r
            THEN <<IF 0 < mcMap(r) THEN mcMap(r) ELSE params[r][1],
                   IF 0 < msMap(r) THEN msMap(r) ELSE params[r][2]>>
            ELSE params[r]]

RECURSIVE SumOver(_, _)
\* sum of f[x] over the x in S
SumOver(S, f) ==
    IF S = {} THEN 0
    ELSE LET x == CHOOSE y \in S : TRUE IN f[x] + SumOver(S \ {x}, f)

\* computeCenters on zeroed masses and centres: the mean of the pixels of
\* each region; a region without pixels gets 0 * (1 / 1e-8) = 0 everywhere
computeCenters(lab, seg, numRegions, imW, imH) ==
    [r \in 0..(numRegions - 1) |->
        LET mine == {x \in 0..(imW * imH - 1) : seg[x] = r}
            fx == [x \in mine |-> x % imW]
            fy == [x \in mine |-> x \div imW]
            f1 == [x \in mine |-> lab[x][1]]
            f2 == [x \in mine |-> lab[x][2]]
            f3 == [x \in mine |-> lab[x][3]]
        IN  IF mine = {}
                THEN [s |-> <<0, 0, 0, 0, 0>>, m |-> 1]
                ELSE [s |-> <<SumOver(mine, fx), SumOver(mine, fy),
                               SumOver(mine, f1), SumOver(mine, f2),
                               SumOver(mine, f3)>>,
                      m |-> Cardinality(mine)]]

\* computeResidualError(prevCenters, currentCenters) < 1e-5.  Coordinates
\* are pixel positions and Lab values with denominators of at most
\* numPixels, so two centres that differ do so by more than 1e-5.
ResidualBelowEps(prev, new) ==
    \A r \in DOMAIN prev : \A k \in 1..5 :
        prev[r].s[k] * new[r].m = new[r].s[k] * prev[r].m

maxNumIterations == 10

\* the copy loop that forgets to copy: the centres stay as they were
CopyCentersStale(current, new) == current

\* currentCenters after "for (i ...) currentCenters[i] = newCenters[i]"
CopyCenters(current, new) == new

----------------------------------------------------------------------------
(* eliminateSmallRegions and remapLabels *)

dx == <<1, -1, 0, 0>>
dy == <<0, 0, 1, -1>>

\* xp + yp * imW for the neighbour of x in the given direction (0..3), or
\* -1 when 0 <= xp < imW and 0 <= yp < imH does not hold
Neighbor(x, direction, imW, imH) ==
    LET xp == (x % imW) + dx[direction + 1]
        yp == (x \div imW) + dy[direction + 1]
    IN  IF 0 <= xp /\ xp < imW /\ 0 <= yp /\ yp < imH THEN xp + yp * imW ELSE -1

RECURSIVE FindCleanedLabel(_, _, _, _, _, _)
\* a direction loop that finds no cleaned neighbour
FindCleanedLabelOwn(cleaned, pixel, own, imW, imH, direction) == own

\* the first direction loop: cleanedLabel after directions 0..direction-1
FindCleanedLabel(cleaned, pixel, own, imW, imH, direction) ==
    IF direction = 0 THEN own
    ELSE LET nb == Neighbor(pixel, direction - 1, imW, imH)
         IN  IF nb # -1 /\ cleaned[nb] # 0
                 THEN cleaned[nb]
                 ELSE FindCleanedLabel(cleaned, pixel, own, imW, imH, direction - 1)

RECURSIVE Expand(_, _, _, _, _, _, _)
\* a fill that stops at its seed: no neighbour is marked or queued
ExpandSeedOnly(seg, label, cleaned, segment, numExpanded, imW, imH) ==
    [cleaned |-> cleaned, segment |-> segment]

\* the while loop "expand the segment": cleaned and the queue `segment`
\* when numExpanded has caught up with segmentSize
Expand(seg, label, cleaned, segment, numExpanded, imW, imH) ==
    IF numExpanded >= Len(segment)
        THEN [cleaned |-> cleaned, segment |-> segment]
        ELSE LET open  == segment[numExpanded + 1]
                 takes(d) == LET nb == Neighbor(open, d, imW, imH)
                             IN  nb # -1 /\ cleaned[nb] = 0 /\ seg[nb] = label
                 found == SelectSeq(<<0, 1, 2, 3>>, takes)
                 added == [k \in 1..Len(found) |-> Neighbor(open, found[k], imW, imH)]
             IN  Expand(seg, label,
                        [x \in DOMAIN cleaned |->
                            IF x \in Range(added) THEN label + 1 ELSE cleaned[x]],
                        segment \o added, numExpanded + 1, imW, imH)

\* the body of the pixel loop for one pixel
CleanPixel(seg, minRegionSize, cleaned, pixel, imW, imH) ==
    IF cleaned[pixel] # 0 THEN cleaned
    ELSE LET label == seg[pixel]
             c1    == [cleaned EXCEPT ![pixel] = label + 1]
             cleanedLabel == FindCleanedLabel(c1, pixel, label + 1, imW, imH, 4)
             e     == Expand(seg, label, c1, <<pixel>>, 0, imW, imH)
         IN  IF Len(e.segment) < minRegionSize
                 THEN [x \in DOMAIN cleaned |->
                          IF x \in Range(e.segment) THEN cleanedLabel
                                                    ELSE e.cleaned[x]]
                 ELSE e.cleaned

RECURSIVE CleanScan(_, _, _, _, _)
\* `cleaned` after the pixel loop has handled pixels 0..pixel-1
CleanScan(seg, minRegionSize, imW, imH, pixel) ==
    IF pixel = 0 THEN [x \in 0..(imW * imH - 1) |-> 0]
    ELSE CleanPixel(seg, minRegionSize,
                    CleanScan(seg, minRegionSize, imW, imH, pixel - 1),
                    pixel - 1, imW, imH)

\* the label map that eliminateSmallRegions leaves in `segmentation`
eliminateSmallRegions(seg, minRegionSize, numPixels, imW, imH) ==
    LET cleaned == CleanScan(seg, minRegionSize, imW, imH, numPixels)
    IN  [x \in 0..(numPixels - 1) |-> cleaned[x] - 1]

\* iteration i of the loop of remapLabels
\* the loop body as its indentation reads: the label is rewritten only when
\* it is met for the first time
RemapStepFirstOnly(prev, i) ==
    LET label == prev.segmentation[i]
        fresh == label \notin DOMAIN prev.map
        map   == IF fresh THEN (label :> prev.index) @@ prev.map ELSE prev.map
    IN  [map |-> map,
         index |-> IF fresh THEN prev.index + 1 ELSE prev.index,
         segmentation |-> IF fresh
                             THEN [prev.segmentation EXCEPT ![i] = map[label]]
                             ELSE prev.segmentation]

RemapStep(prev, i) ==
    LET label == prev.segmentation[i]
        fresh == label \notin DOMAIN prev.map
        map   == IF fresh THEN (label :> prev.index) @@ prev.map ELSE prev.map
    IN  [map |-> map,
         index |-> IF fresh THEN prev.index + 1 ELSE prev.index,
         segmentation |-> [prev.segmentation EXCEPT ![i] = map[label]]]

RECURSIVE RemapScan(_, _)
\* map, index and the rewritten prefix after i iterations of remapLabels
RemapScan(seg, i) ==
    IF i = 0 THEN [map |-> << >>, index |-> 0, segmentation |-> seg]
    ELSE RemapStep(RemapScan(seg, i - 1), i - 1)

\* remapLabels: the rewritten label map and the returned count
remapLabels(seg) ==
    LET r == RemapScan(seg, Cardinality(DOMAIN seg))
    IN  [segmentation |-> r.segmentation, index |-> r.index]

----------------------------------------------------------------------------
(* Configurations *)

\* options.sigma in hundredths
DefaultSigma     == 50
DefaultThreshold == 500
DefaultMinSize   == 20

Sigmas     == {0, DefaultSigma}
Thresholds == {0, 1, 10, DefaultThreshold}
MinSizes   == {1, 2, DefaultMinSize}

RegionSizes    == {1, 2}
MinRegionSizes == {1, 2, 3}

\* options.callback and options.toDataURL: supplied or not
Handlers == [callback : BOOLEAN, toDataURL : BOOLEAN]
CallbackOnly == [callback |-> TRUE, toDataURL |-> FALSE]
\* every combination of the two is run on images of up to MaxHandlerPixels
\* pixels, larger images are run with a callback alone
HandlersFor(img) ==
    IF img.width * img.height <= MaxHandlerPixels THEN Handlers
                                                    ELSE {CallbackOnly}

\* options.annotation of PreSegmentation: absent or the URL of a PNG
AnnotationURLs == {None, "annotation.png"}
PreOptions  == [annotation : AnnotationURLs]
\* the string PreSegmentation throws
AnnotationURLMissing == "Annotation URL missing"

\* labels.length of the label definitions handed to SegmentAnnotator and
\* setLabels: the default two, fewer, and as many as 24 bits can index
LabelCounts == {1, 2, 2^24}
\* label indices handed to setCurrentLabel
LabelIndices == {0, 1, 257, 2^24 - 1}
\* labels that the pixels of an annotation PNG encode
PixelLabels == {0, 1, 257}

\* segmentations as the segmentation functions deliver them: dense labels
\* in order of first occurrence
AnnotatedDims == {d \in Dims : d[1] * d[2] <= MaxAnnotatedPixels}
Segmentations ==
    UNION {{LET r == remapLabels(l)
            IN  [width |-> d[1], height |-> d[2], size |-> r.index,
                 indexMap |-> r.segmentation,
                 rgbData |-> [x \in DOMAIN l |-> White]]
               : l \in [0..(d[1] * d[2] - 1) -> 0..(MaxSegments - 1)]}
           : d \in AnnotatedDims}

\* the pixels of annotation PNGs of a given size
AnnotationImages(numPixels) ==
    [0..(numPixels - 1) -> {_setEncodedLabel(l) : l \in PixelLabels}]

PFOptions   == [sigma : Sigmas, threshold : Thresholds, minSize : MinSizes]
SLICOptions == [regionSize : RegionSizes, minRegionSize : MinRegionSizes]

\* images wide and high enough for several centres at regionSize 2
SeveralRegionsDims == {<<4, 2>>, <<2, 4>>}

\* the uniform images of 4 x 4 pixels
UniformSquares ==
    {[width |-> 4, height |-> 4, data |-> [p \in 0..15 |-> c]]
        : c \in Range(SLICPalette)}

SLICImages ==
    ImagesOver(Dims \cup SeveralRegionsDims, SLICPalette) \cup UniformSquares

\* raw labels of the label maps given to the eliminator and the compactor
RawLabels == {0, 3, 9}

\* scenario D: one pixel of label 9 surrounded by label 3
ScenarioD == [width |-> 3, height |-> 3,
              labels |-> [x \in 0..8 |-> IF x = 4 THEN 9 ELSE 3]]

LabelMaps ==
    UNION {{[width |-> d[1], height |-> d[2], labels |-> l]
               : l \in [0..(d[1] * d[2] - 1) -> RawLabels]} : d \in Dims}
      \cup {ScenarioD}

----------------------------------------------------------------------------
(* Initial states: the image has loaded and onSuccessImageLoad has drawn   *)
(* it into imageData                                                       *)

\* no function of the caller has been called and nothing was thrown
Silent ==
    /\ result = None
    /\ calls = << >>
    /\ dataURL = None
    /\ error = None

\* getAnnotation has not been called, or another call was made since
NoExport == << >>

\* the last call was not setAnnotation
NoSource == << >>

\* no Annotator has been constructed
NoWidget == << >>

\* no SegmentAnnotator and no Annotator has been constructed
NoAnnotator ==
    /\ annotator = None
    /\ exported = NoExport
    /\ widget = NoWidget

Idle ==
    /\ edges = << >>
    /\ universe = None
    /\ indexMap = None
    /\ currentCenters = None
    /\ clusterParams = None
    /\ segmentation = None
    /\ assigned = None
    /\ numEliminations = 0
    /\ iter = 0
    /\ loopExit = None
    /\ numSegments = None
    /\ Silent
    /\ NoAnnotator

InitPF ==
    /\ alg = "PF"
    /\ pc = "loaded"
    /\ image \in PFImages
    /\ imageData = image
    /\ options \in PFOptions
    /\ handlers \in HandlersFor(image)
    /\ Idle

InitSLIC ==
    /\ alg = "SLIC"
    /\ pc = "loaded"
    /\ image \in SLICImages
    /\ imageData = image
    /\ options \in SLICOptions
    /\ image \in UniformSquares => options.regionSize = 2
    /\ handlers \in HandlersFor(image)
    /\ Idle

\* a label map handed to eliminateSmallRegions and remapLabels directly
InitLabels ==
    /\ alg = "LABELS"
    /\ pc = "clustered"
    /\ \E lm \in LabelMaps :
          /\ image = [width |-> lm.width, height |-> lm.height,
                      data |-> [x \in 0..(lm.width * lm.height - 1) |-> White]]
          /\ segmentation = lm.labels
    /\ imageData = image
    /\ options \in [minRegionSize : MinRegionSizes]
    /\ handlers = CallbackOnly
    /\ edges = << >>
    /\ universe = None
    /\ indexMap = None
    /\ currentCenters = None
    /\ clusterParams = None
    /\ assigned = None
    /\ numEliminations = 0
    /\ iter = 0
    /\ loopExit = None
    /\ numSegments = None
    /\ Silent
    /\ NoAnnotator

\* the page is about to call PreSegmentation(imageURL, options)
InitPre ==
    /\ alg = "PRE"
    /\ pc = "start"
    /\ image \in SLICImages
    /\ imageData = None
    /\ options \in PreOptions
    /\ handlers \in Handlers
    /\ Idle

\* new SegmentAnnotator(segmentation, options) without options.annotation
\* has run: every annotation is 0 and currentLabel is still null
InitAnnotator ==
    /\ alg = "ANNOTATOR"
    /\ pc = "ready"
    /\ result \in Segmentations
    /\ image = [width |-> result.width, height |-> result.height,
                data |-> result.rgbData]
    /\ imageData = image
    /\ options \in [labels : LabelCounts]
    /\ handlers = CallbackOnly
    /\ calls = <<"callback">>
    /\ dataURL = None
    /\ error = None
    /\ annotator = [width        |-> result.width,
                    height       |-> result.height,
                    indexMap     |-> result.indexMap,
                    segments     |-> result.size,
                    numLabels    |-> options.labels,
                    annotations  |-> [i \in 0..(result.size - 1) |-> 0],
                    currentLabel |-> Null,
                    sourceData   |-> NoSource]
    /\ exported = NoExport
    /\ widget = NoWidget
    /\ edges = << >>
    /\ universe = None
    /\ indexMap = None
    /\ currentCenters = None
    /\ clusterParams = None
    /\ segmentation = None
    /\ assigned = None
    /\ numEliminations = 0
    /\ iter = 0
    /\ loopExit = None
    /\ numSegments = None

----------------------------------------------------------------------------
(* PFSegmentation: computeSegmentation, one action per stage *)

SmoothImage ==
    /\ alg = "PF" /\ pc = "loaded"
    /\ imageData' = smoothImage(imageData, options.sigma)
    /\ pc' = "smoothed"
    /\ UNCHANGED <<alg, image, options, handlers, pfVars, slicVars, mapVars,
                   outVars, annVars>>

CreateEdges ==
    /\ alg = "PF" /\ pc = "smoothed"
    /\ edges' = createEdges(imageData)
    /\ pc' = "edges"
    /\ UNCHANGED <<alg, image, imageData, options, handlers,
                   universe, indexMap, slicVars, mapVars, outVars, annVars>>

SortEdges ==
    /\ alg = "PF" /\ pc = "edges"
    /\ edges' = sortEdgesByWeights(edges)
    /\ universe' = createUniverse(imageData.width * imageData.height,
                                  options.threshold)
    /\ pc' = "sorted"
    /\ UNCHANGED <<alg, image, imageData, options, handlers, indexMap,
                   slicVars, mapVars, outVars, annVars>>

BottomUpMerge ==
    /\ alg = "PF" /\ pc = "sorted"
    /\ universe' = MergePass(universe, edges, options.threshold, Len(edges))
    /\ pc' = "merged"
    /\ UNCHANGED <<alg, image, imageData, options, handlers,
                   edges, indexMap, slicVars, mapVars, outVars, annVars>>

MergeSmallComponents ==
    /\ alg = "PF" /\ pc = "merged"
    /\ universe' = SmallPass(universe, edges, options.minSize, Len(edges))
    /\ pc' = "segmented"
    /\ UNCHANGED <<alg, image, imageData, options, handlers,
                   edges, indexMap, slicVars, mapVars, outVars, annVars>>

CreateIndexMap ==
    /\ alg = "PF" /\ pc = "segmented"
    /\ LET n == imageData.width * imageData.height
       IN  /\ indexMap' = createIndexMap(universe, imageData)
           /\ universe' = IndexScan(universe, n, n).universe
    /\ pc' = "indexed"
    /\ UNCHANGED <<alg, image, imageData, options, handlers, edges,
                   slicVars, mapVars, outVars, annVars>>

\* the tail of computeSegmentation: options.callback, then getDataURL
PFCallback ==
    /\ alg = "PF" /\ pc = "indexed"
    /\ IF handlers.callback
          THEN result' = [width    |-> imageData.width,
                          height   |-> imageData.height,
                          size     |-> universe.nodes,
                          indexMap |-> indexMap,
                          rgbData  |-> imageData.data]
          ELSE result' = result
    /\ IF handlers.toDataURL
          THEN dataURL' = getDataURL(imageData.width, imageData.height,
                                     indexMap)
          ELSE dataURL' = dataURL
    /\ calls' = calls \o (IF handlers.callback THEN <<"callback">> ELSE << >>)
                      \o (IF handlers.toDataURL THEN <<"toDataURL">> ELSE << >>)
    /\ error' = error
    /\ pc' = IF handlers.callback THEN "done" ELSE "returned"
    /\ UNCHANGED <<alg, image, imageData, options, handlers, pfVars, slicVars, mapVars, annVars>>

----------------------------------------------------------------------------
(* SLICSegmentation: computeSLICSegmentation and computeSegmentation *)

InitializeCenters ==
    /\ alg = "SLIC" /\ pc = "loaded"
    /\ LET lab     == labOf(imageData)
           edgeMap == computeEdge(lab, imageData.width, imageData.height)
       IN  currentCenters' =
               initializeKmeansCenters(lab, edgeMap,
                                       NumRegionsX(imageData, options),
                                       NumRegionsY(imageData, options),
                                       options.regionSize,
                                       imageData.width, imageData.height)
    /\ clusterParams' = initialClusterParams(NumRegions(imageData, options),
                                             options.regionSize)
    /\ segmentation' = [x \in 0..(imageData.width * imageData.height - 1) |-> 0]
    /\ iter' = 0
    /\ pc' = "clustering"
    /\ UNCHANGED <<alg, image, imageData, options, handlers, pfVars,
                   assigned,
                   numEliminations, loopExit, numSegments, outVars, annVars>>

\* one pass through the body of the for loop over iter
ClusteringRound ==
    /\ alg = "SLIC" /\ pc = "clustering"
    /\ iter < maxNumIterations
    /\ LET lab == labOf(imageData)
           numRegions == NumRegions(imageData, options)
           a   == assignSuperpixelLabel(lab, segmentation, currentCenters,
                                        clusterParams, numRegions,
                                        options.regionSize,
                                        imageData.width, imageData.height)
           newCenters == computeCenters(lab, a.segmentation, numRegions,
                                        imageData.width, imageData.height)
       IN  /\ segmentation' = a.segmentation
           /\ clusterParams' = updateClusterParams(a.segmentation, a.clusterParams)
           /\ iter' = iter + 1
           /\ IF ResidualBelowEps(currentCenters, newCenters)
                 THEN /\ currentCenters' = currentCenters
                      /\ loopExit' = "residual"
                      /\ pc' = "clustered"
                 ELSE /\ currentCenters' = CopyCenters(currentCenters, newCenters)
                      /\ loopExit' = IF iter + 1 < maxNumIterations
                                        THEN loopExit ELSE "cap"
                      /\ pc' = IF iter + 1 < maxNumIterations
                                  THEN "clustering" ELSE "clustered"
    /\ UNCHANGED <<alg, image, imageData, options, handlers, pfVars,
                   assigned,
                   numEliminations, numSegments, outVars, annVars>>

EliminateSmallRegions ==
    /\ alg \in {"SLIC", "LABELS"} /\ pc = "clustered"
    /\ assigned' = segmentation
    /\ numEliminations' = numEliminations + 1
    /\ segmentation' = eliminateSmallRegions(segmentation, options.minRegionSize,
                                             imageData.width * imageData.height,
                                             imageData.width, imageData.height)
    /\ pc' = "cleaned"
    /\ UNCHANGED <<alg, image, imageData, options, handlers, pfVars,
                   slicVars,
                   numSegments, outVars, annVars>>

RemapLabels ==
    /\ alg \in {"SLIC", "LABELS"} /\ pc = "cleaned"
    /\ LET r == remapLabels(segmentation)
       IN  /\ segmentation' = r.segmentation
           /\ numSegments' = r.index
    /\ pc' = "remapped"
    /\ UNCHANGED <<alg, image, imageData, options, handlers, pfVars,
                   slicVars,
                   assigned, numEliminations, outVars, annVars>>

\* the tail of computeSegmentation: options.callback, then a call of
\* getDataURL whose argument indexMap is not defined in this scope, so
\* evaluating the argument list throws before getDataURL is entered
SLICCallback ==
    /\ alg \in {"SLIC", "LABELS"} /\ pc = "remapped"
    /\ IF handlers.callback
          THEN result' = [width    |-> imageData.width,
                          height   |-> imageData.height,
                          size     |-> numSegments,
                          indexMap |-> segmentation,
                          rgbData  |-> imageData.data]
          ELSE result' = result
    /\ calls' = calls \o (IF handlers.callback THEN <<"callback">> ELSE << >>)
    /\ dataURL' = dataURL
    /\ IF handlers.toDataURL
          THEN /\ error' = ReferenceError
               /\ pc' = "threw"
          ELSE /\ error' = error
               /\ pc' = IF handlers.callback THEN "done" ELSE "returned"
    /\ UNCHANGED <<alg, image, imageData, options, handlers, pfVars, slicVars, mapVars, annVars>>

\* the label compactor applied to a label map it has already compacted
RemapAgain ==
    /\ alg = "LABELS" /\ pc = "done"
    /\ LET r == remapLabels(segmentation)
       IN  /\ segmentation' = r.segmentation
           /\ numSegments' = r.index
    /\ pc' = "again"
    /\ UNCHANGED <<alg, image, imageData, options, handlers, pfVars,
                   slicVars,
                   assigned, numEliminations, outVars, annVars>>

----------------------------------------------------------------------------
(* PreSegmentation: the entry point and its image loads *)

\* window.PreSegmentation: throws when options.annotation is truthy,
\* otherwise starts loading the image
PreSegmentation ==
    /\ alg = "PRE" /\ pc = "start"
    /\ IF options.annotation # None
          THEN /\ error' = AnnotationURLMissing
               /\ pc' = "threw"
          ELSE /\ error' = error
               /\ pc' = "loading"
    /\ UNCHANGED <<alg, image, imageData, options, handlers, pfVars,
                   slicVars, mapVars, result, calls, dataURL, annVars>>

\* image.onload: onSuccessImageLoad draws the image and starts loading
\* the annotation from options.annotation, which is undefined on this path
PreImageLoaded ==
    /\ alg = "PRE" /\ pc = "loading"
    /\ imageData' = image
    /\ pc' = "loading annotation"
    /\ UNCHANGED <<alg, image, options, handlers, pfVars, slicVars, mapVars,
                   outVars, annVars>>

\* image.onerror or annotations.onerror: onErrorImageLoad alerts
PreLoadFailed ==
    /\ alg = "PRE" /\ pc \in {"loading", "loading annotation"}
    /\ calls' = calls \o <<"alert">>
    /\ pc' = "alerted"
    /\ UNCHANGED <<alg, image, imageData, options, handlers, pfVars,
                   slicVars, mapVars, result, dataURL, error, annVars>>

----------------------------------------------------------------------------
(* SegmentAnnotator: the calls of the page and of the mouse.  No call is   *)
(* made while an annotation is loading.  exported holds the value of the   *)
(* last call when that was getAnnotation, annotator.sourceData the pixels  *)
(* of the annotation image of the last call when that was setAnnotation.   *)

coreVars == <<alg, image, imageData, options, handlers, pfVars, slicVars,
              mapVars, outVars>>

\* setCurrentLabel(index) with a valid numeric index
SetCurrentLabel ==
    /\ alg = "ANNOTATOR" /\ pc # "importing"
    /\ \E index \in LabelIndices :
          /\ index < annotator.numLabels
          /\ annotator' = [annotator EXCEPT !.currentLabel = index,
                                            !.sourceData = NoSource]
    /\ pc' = "ready"
    /\ exported' = NoExport
    /\ UNCHANGED <<coreVars, widget>>

\* updateIfActive with the mouse down over a segment: the right button
\* annotates with label 0, any other button with currentLabel, which the
\* page has set before
MouseAnnotate ==
    /\ alg = "ANNOTATOR" /\ pc # "importing"
    /\ \E index \in DOMAIN annotator.annotations, button \in {0, 2} :
          LET label == IF button = 2 THEN 0 ELSE annotator.currentLabel
          IN  /\ label # Null
              /\ annotator' = [annotator EXCEPT !.annotations[index] = label,
                                                !.sourceData = NoSource]
    /\ pc' = "ready"
    /\ exported' = NoExport
    /\ UNCHANGED <<coreVars, widget>>

\* setLabels(newLabels) with a non-empty array
SetLabels ==
    /\ alg = "ANNOTATOR" /\ pc # "importing"
    /\ \E n \in LabelCounts :
          annotator' =
              [annotator EXCEPT
                  !.numLabels = n,
                  !.annotations = RenderAnnotations(annotator.annotations, n),
                  !.currentLabel = RenderCurrent(annotator.currentLabel, n),
                  !.sourceData = NoSource]
    /\ pc' = "labels set"
    /\ exported' = NoExport
    /\ UNCHANGED <<coreVars, widget>>

\* getAnnotation()
GetAnnotation ==
    /\ alg = "ANNOTATOR" /\ pc # "importing"
    /\ exported' = getAnnotation(annotator)
    /\ annotator' = [annotator EXCEPT !.sourceData = NoSource]
    /\ pc' = "exported"
    /\ UNCHANGED <<coreVars, widget>>

\* setAnnotation(imageURL): the image behind the URL starts loading; it
\* is an annotation PNG of the annotator's size or the one just exported
SetAnnotation ==
    /\ alg = "ANNOTATOR" /\ pc # "importing"
    /\ \E src \in AnnotationImages(annotator.width * annotator.height)
                      \cup (IF pc = "exported" THEN {exported} ELSE {}) :
          annotator' = [annotator EXCEPT !.sourceData = src]
    /\ pc' = "importing"
    /\ exported' = NoExport
    /\ UNCHANGED <<coreVars, widget>>

\* image.onload of _importAnnotation, then the callback of setAnnotation
AnnotationLoaded ==
    /\ alg = "ANNOTATOR" /\ pc = "importing"
    /\ LET imported == _importAnnotation(annotator, annotator.sourceData)
       IN  annotator' =
               [annotator EXCEPT
                   !.annotations = RenderAnnotations(imported,
                                                     annotator.numLabels),
                   !.currentLabel = RenderCurrent(0, annotator.numLabels)]
    /\ pc' = "imported"
    /\ UNCHANGED <<coreVars, exported, widget>>

----------------------------------------------------------------------------
(* Annotator: the annotation layer and the edit history of the layered     *)
(* widget.  w holds the fields of the Annotator object; w.data is          *)
(* layers.annotation.imageData.data, w.history the array of update records *)
(* and w.returned what the last call returned; w.edited lists, for the     *)
(* label edits made in a row up to now that each changed a pixel, the      *)
(* labels the layer had before each of them.  Of the four bytes of a       *)
(* pixel w.data keeps the three that encode the label; the alpha byte,     *)
(* which fill and setAlpha set to 0 and _setEncodedLabel to 255, is read   *)
(* by nothing and is left out, as is the visualization layer.              *)

\* the three label bytes of the four bytes of a pixel
LabelBytes(bytes) == SubSeq(bytes, 1, 3)

\* layer.fill([defaultLabel, 0, 0, 0]) of _initializeAnnotationLayer
LayerFill(numPixels, label) ==
    [x \in 0..(numPixels - 1) |-> LabelBytes(<<label, 0, 0, 0>>)]

\* the encoded label of every pixel of the annotation layer
EncodedLabels(w) == [x \in DOMAIN w.data |-> _getEncodedLabel(w.data[x])]

\* the last n entries of the sequence q, or all of q
LastOf(q, n) == SubSeq(q, Max(1, Len(q) - n + 1), Len(q))

\* _fillArray(new Int32Array(n), value)
_fillArray(n, value) == [i \in 1..n |-> value]

\* updates whose prev holds the label asked for instead of the label found
_getDifferentialUpdatesNoPrev(data, pixels, labels) ==
    LET differs(i) == _getEncodedLabel(data[pixels[i]]) # labels[i]
        at == SelectSeq([i \in 1..Len(pixels) |-> i], differs)
    IN  [pixels |-> [k \in 1..Len(at) |-> pixels[at[k]]],
         prev   |-> [k \in 1..Len(at) |-> labels[at[k]]],
         next   |-> [k \in 1..Len(at) |-> labels[at[k]]]]

\* _getDifferentialUpdates: the pixels whose encoded label differs from
\* the label asked for, with the label they have and the label they get
_getDifferentialUpdates(data, pixels, labels) ==
    LET differs(i) == _getEncodedLabel(data[pixels[i]]) # labels[i]
        at == SelectSeq([i \in 1..Len(pixels) |-> i], differs)
    IN  [pixels |-> [k \in 1..Len(at) |-> pixels[at[k]]],
         prev   |-> [k \in 1..Len(at) |-> _getEncodedLabel(data[pixels[at[k]]])],
         next   |-> [k \in 1..Len(at) |-> labels[at[k]]]]

\* an _updateHistory that pushes without dropping the records after the
\* cursor
_updateHistoryKeepsBranch(w, updates) ==
    LET pushed == Append(w.history, updates)
    IN  IF Len(pushed) > w.maxHistoryRecord
            THEN [w EXCEPT !.history = SubSeq(pushed, 2, Len(pushed))]
            ELSE [w EXCEPT !.history = pushed,
                           !.currentHistoryRecord = @ + 1]

\* _updateHistory: slice(0, currentHistoryRecord + 1), push, then drop the
\* oldest record or advance the cursor
_updateHistory(w, updates) ==
    LET pushed == Append(SubSeq(w.history, 1, w.currentHistoryRecord + 1),
                         updates)
    IN  IF Len(pushed) > w.maxHistoryRecord
            THEN [w EXCEPT !.history = SubSeq(pushed, 2, Len(pushed))]
            ELSE [w EXCEPT !.history = pushed,
                           !.currentHistoryRecord = @ + 1]

RECURSIVE FillFrom(_, _, _, _)
\* the loop of _fillPixels from index i on
FillFrom(data, pixels, labels, i) ==
    IF i > Len(pixels) THEN data
    ELSE FillFrom([data EXCEPT
                      ![pixels[i]] = LabelBytes(_setEncodedLabel(labels[i]))],
                  pixels, labels, i + 1)

\* _fillPixels on the annotation layer, for lists of equal length and
\* labels that have a colour
_fillPixels(data, pixels, labels) == FillFrom(data, pixels, labels, 1)

\* _updateAnnotation(pixels, labels) with a numeric label or an array
_updateAnnotation(w, pixels, labels) ==
    LET updates == _getDifferentialUpdates(w.data, pixels, labels)
    IN  IF Len(updates.pixels) = 0
            THEN [w EXCEPT !.returned = "this"]
            ELSE [_updateHistory(w, updates) EXCEPT
                     !.data = _fillPixels(w.data, updates.pixels, updates.next),
                     !.returned = "this"]

\* an undo that answers an empty history with the value of
\* currentHistoryRecord < 0
undoReturnsEmpty(w) ==
    IF w.currentHistoryRecord < 0
        THEN [w EXCEPT !.returned = "true"]
        ELSE LET record == w.history[w.currentHistoryRecord + 1]
             IN  [w EXCEPT
                     !.currentHistoryRecord = @ - 1,
                     !.data = _fillPixels(w.data, record.pixels, record.prev),
                     !.returned = IF w.currentHistoryRecord - 1 < 0
                                     THEN "true" ELSE "false"]

\* undo()
undo(w) ==
    IF w.currentHistoryRecord < 0
        THEN [w EXCEPT !.returned = "false"]
        ELSE LET record == w.history[w.currentHistoryRecord + 1]
             IN  [w EXCEPT
                     !.currentHistoryRecord = @ - 1,
                     !.data = _fillPixels(w.data, record.pixels, record.prev),
                     !.returned = IF w.currentHistoryRecord - 1 < 0
                                     THEN "true" ELSE "false"]

\* redo()
redo(w) ==
    IF w.currentHistoryRecord >= Len(w.history) - 1
        THEN [w EXCEPT !.returned = "false"]
        ELSE LET record == w.history[w.currentHistoryRecord + 2]
             IN  [w EXCEPT
                     !.currentHistoryRecord = @ + 1,
                     !.data = _fillPixels(w.data, record.pixels, record.next),
                     !.returned = IF w.currentHistoryRecord + 1 >= Len(w.history)
                                     THEN "true" ELSE "false"]

\* the onload handler of import, called on the annotation layer that has
\* loaded the image: `this.history` and `this.currentHistoryRecord` are
\* written on the layer, not on the Annotator
importOnload(w) ==
    [w EXCEPT !.data = w.loading,
              !.layerReset = TRUE,
              !.loading = NoSource]

\* options.maxHistoryRecord values and the indices of the default colormap
MaxHistoryRecords == 2
MaxLayerPixels == 2
HistoryOptions == [maxHistoryRecord : 1..MaxHistoryRecords]
ColorIndices == {0, 1}

\* the pixel lists handed to _updateAnnotation, in scan order: the pixels
\* of a superpixel under the mouse, here a single pixel, or all pixels, as
\* fill() collects them
PixelLists(numPixels) ==
    {<<x>> : x \in 0..(numPixels - 1)} \cup {[i \in 1..numPixels |-> i - 1]}

\* the annotation PNG handed to import: every pixel encodes colormap
\* index 1
ImportImages(numPixels) ==
    {[x \in 0..(numPixels - 1) |-> LabelBytes(_setEncodedLabel(1))]}

LayerDims == {d \in Dims : d[1] * d[2] <= MaxLayerPixels}

\* new Annotator(imageURL, options) has run and the image has loaded:
\* _initialize has filled the annotation layer with defaultLabel 0
InitWidget ==
    /\ alg = "WIDGET"
    /\ pc = "ready"
    /\ \E d \in LayerDims :
          image = [width |-> d[1], height |-> d[2],
                   data |-> [x \in 0..(d[1] * d[2] - 1) |-> White]]
    /\ imageData = image
    /\ options \in HistoryOptions
    /\ handlers = CallbackOnly
    /\ annotator = None
    /\ exported = NoExport
    /\ widget = [data                 |-> LayerFill(image.width * image.height, 0),
                 history              |-> << >>,
                 currentHistoryRecord |-> 0 - 1,
                 maxHistoryRecord     |-> options.maxHistoryRecord,
                 loading              |-> NoSource,
                 layerReset           |-> FALSE,
                 returned             |-> None,
                 edited               |-> << >>]
    /\ edges = << >>
    /\ universe = None
    /\ indexMap = None
    /\ currentCenters = None
    /\ clusterParams = None
    /\ segmentation = None
    /\ assigned = None
    /\ numEliminations = 0
    /\ iter = 0
    /\ loopExit = None
    /\ numSegments = None
    /\ Silent

(* Annotator: the calls of the page and of the mouse.  No call is made     *)
(* while an annotation is loading.                                         *)

\* w1, which a label edit made of w, with the labels of w noted in
\* w1.edited when the edit changed a pixel
Edited(w, w1) ==
    [w1 EXCEPT !.edited =
        IF EncodedLabels(w1) # EncodedLabels(w)
            THEN LastOf(Append(w.edited, EncodedLabels(w)), w.maxHistoryRecord)
            ELSE << >>]

\* w1, which a call that is no label edit made of w
NotEdited(w1) == [w1 EXCEPT !.edited = << >>]

\* _updateAnnotation(pixels, label), as the mouse handler, fill and the
\* polygon tool call it with a label of the colormap
UpdateAnnotation ==
    /\ alg = "WIDGET" /\ pc # "importing"
    /\ \E pixels \in PixelLists(Cardinality(DOMAIN widget.data)),
          label \in ColorIndices :
          widget' = Edited(widget,
                           _updateAnnotation(widget, pixels,
                                             _fillArray(Len(pixels), label)))
    /\ pc' = "ready"
    /\ UNCHANGED <<coreVars, annotator, exported>>

Undo ==
    /\ alg = "WIDGET" /\ pc # "importing"
    /\ widget' = NotEdited(undo(widget))
    /\ pc' = "ready"
    /\ UNCHANGED <<coreVars, annotator, exported>>

Redo ==
    /\ alg = "WIDGET" /\ pc # "importing"
    /\ widget' = NotEdited(redo(widget))
    /\ pc' = "ready"
    /\ UNCHANGED <<coreVars, annotator, exported>>

\* import(annotationURL): the annotation layer starts loading the image
Import ==
    /\ alg = "WIDGET" /\ pc # "importing"
    /\ \E src \in ImportImages(Cardinality(DOMAIN widget.data)) :
          widget' = NotEdited([widget EXCEPT !.loading = src,
                                              !.returned = "this"])
    /\ pc' = "importing"
    /\ UNCHANGED <<coreVars, annotator, exported>>

\* the image has loaded: the onload handler of import runs
ImportLoaded ==
    /\ alg = "WIDGET" /\ pc = "importing"
    /\ widget' = importOnload(widget)
    /\ pc' = "imported"
    /\ UNCHANGED <<coreVars, annotator, exported>>

----------------------------------------------------------------------------
(* Specifications *)

Init == InitPF \/ InitSLIC \/ InitLabels \/ InitPre \/ InitAnnotator
            \/ InitWidget

NextPF ==
    \/ SmoothImage
    \/ CreateEdges
    \/ SortEdges
    \/ BottomUpMerge
    \/ MergeSmallComponents
    \/ CreateIndexMap
    \/ PFCallback

NextSLIC ==
    \/ InitializeCenters
    \/ ClusteringRound
    \/ EliminateSmallRegions
    \/ RemapLabels
    \/ SLICCallback

NextLabels ==
    \/ EliminateSmallRegions
    \/ RemapLabels
    \/ SLICCallback
    \/ RemapAgain

NextPre ==
    \/ PreSegmentation
    \/ PreImageLoaded
    \/ PreLoadFailed

NextAnnotator ==
    \/ SetCurrentLabel
    \/ MouseAnnotate
    \/ SetLabels
    \/ GetAnnotation
    \/ SetAnnotation
    \/ AnnotationLoaded

NextWidget ==
    \/ UpdateAnnotation
    \/ Undo
    \/ Redo
    \/ Import
    \/ ImportLoaded

Next == NextPF \/ NextSLIC \/ RemapAgain \/ NextPre \/ NextAnnotator
            \/ NextWidget

SpecPF     == InitPF /\ [][NextPF]_vars
SpecSLIC   == InitSLIC /\ [][NextSLIC]_vars
SpecLabels == InitLabels /\ [][NextLabels]_vars
SpecPre    == InitPre /\ [][NextPre]_vars
SpecAnnotator == InitAnnotator /\ [][NextAnnotator]_vars
SpecWidget == InitWidget /\ [][NextWidget]_vars
Spec       == Init /\ [][Next]_vars

----------------------------------------------------------------------------
(* Properties of the delivered result *)

\* the labels that occur in a label map
LabelsOf(m) == {m[x] : x \in DOMAIN m}

\* the number of pixels of a label map that carry label l
PixelCount(m, l) == Cardinality({x \in DOMAIN m : m[x] = l})

NumPixels == imageData.width * imageData.height

\* the callback has been called with result
Delivered == "callback" \in Range(calls)

\* the segment count segmentGraph gives for threshold c on the smoothed
\* image and its sorted edges
SegmentCountAt(c) ==
    segmentGraph(imageData, edges, [options EXCEPT !.threshold = c]).nodes

\* the largest edge weight
MaxWeight(es) ==
    IF Len(es) = 0 THEN 0
    ELSE CHOOSE w \in {es[k].w : k \in 1..Len(es)} :
             \A k \in 1..Len(es) : es[k].w <= w

\* c is at least W*H times the largest edge weight
Dominates(c) == c * WScale >= NumPixels * MaxWeight(edges)

\* C1: on both paths the labels of the delivered indexMap are exactly the
\* integers 0 .. size-1, each occurring on at least one pixel
LabelContiguity ==
    Delivered => LabelsOf(result.indexMap) = 0..(result.size - 1)

\* a graph-based run delivering three or more segments
LabelContiguityWitness ==
    /\ alg = "PF" /\ pc = "done"
    /\ result.size >= 3
    /\ LabelsOf(result.indexMap) = 0..(result.size - 1)

\* C2: after both merge passes of the graph-based path every component has
\* at least minSize pixels; an image of fewer than minSize pixels becomes a
\* single segment (size = 1, indexMap all 0), as does the uniform 2x2 image
\* under the default settings
SizeLowerBoundPF ==
    (alg = "PF" /\ pc = "done") =>
        /\ \A l \in LabelsOf(result.indexMap) :
              \/ PixelCount(result.indexMap, l) >= options.minSize
              \/ NumPixels < options.minSize
        /\ NumPixels < options.minSize =>
              /\ result.size = 1
              /\ \A x \in DOMAIN result.indexMap : result.indexMap[x] = 0

\* the small-component pass joined components that the bottom-up pass had
\* left below minSize, and more than one segment remains
SizeLowerBoundPFWitness ==
    /\ alg = "PF" /\ pc = "done"
    /\ result.size >= 2
    /\ NumPixels >= options.minSize
    /\ MergePass(createUniverse(NumPixels, options.threshold), edges,
                 options.threshold, Len(edges)).nodes > result.size
    /\ \A l \in LabelsOf(result.indexMap) :
          PixelCount(result.indexMap, l) >= options.minSize

\* C3: on the superpixel path, when the image has at least minRegionSize
\* pixels, every label of the delivered map occurs on at least
\* minRegionSize pixels
SizeLowerBoundSLIC ==
    (alg = "SLIC" /\ pc = "done" /\ NumPixels >= options.minRegionSize) =>
        \A l \in LabelsOf(result.indexMap) :
            PixelCount(result.indexMap, l) >= options.minRegionSize

\* C4: with image, sigma and minSize fixed, a larger threshold never gives
\* more segments
ThresholdMonotone ==
    (alg = "PF" /\ pc = "done") =>
        \A c2 \in Thresholds :
            c2 >= options.threshold => SegmentCountAt(c2) <= result.size

\* C4, as the code has it: a threshold of at least W*H times the largest
\* edge weight gives a single segment, hence no more segments than any
\* smaller threshold gives
ThresholdDominant ==
    (alg = "PF" /\ pc = "done") =>
        \A c2 \in Thresholds :
            (c2 >= options.threshold /\ Dominates(c2)) =>
                /\ SegmentCountAt(c2) = 1
                /\ SegmentCountAt(c2) <= result.size

\* a run delivering several segments for which a larger, dominating
\* threshold exists
ThresholdDominantWitness ==
    /\ alg = "PF" /\ pc = "done"
    /\ result.size >= 2
    /\ \E c2 \in Thresholds :
          /\ c2 > options.threshold
          /\ Dominates(c2)
          /\ SegmentCountAt(c2) = 1

\* C6: the label compactor applied to a label map it has already compacted
\* returns the same map and the same count
RemapIdempotent ==
    pc = "again" =>
        /\ segmentation = result.indexMap
        /\ numSegments = result.size

\* the first application rewrote a map of several raw labels
RemapIdempotentWitness ==
    /\ pc = "again"
    /\ options.minRegionSize = 1
    /\ assigned # result.indexMap
    /\ result.size >= 2
    /\ segmentation = result.indexMap

\* pixels x and y are neighbours in one of the four directions
Adjacent4(x, y, w) ==
    \/ (x \div w = y \div w /\ (x - y = 1 \/ y - x = 1))
    \/ x - y = w
    \/ y - x = w

RECURSIVE Grow(_, _, _)
\* the 4-connected set of pixels of one label reached from the set S
Grow(m, w, S) ==
    LET T == S \cup {y \in DOMAIN m :
                        \E x \in S : Adjacent4(x, y, w) /\ m[y] = m[x]}
    IN  IF T = S THEN S ELSE Grow(m, w, T)

\* the 4-connected components of the label map m
Components(m, w) == {Grow(m, w, {x}) : x \in DOMAIN m}

\* the components of the map as it entered the eliminator that are smaller
\* than minRegionSize
SmallComponents ==
    {C \in Components(assigned, imageData.width) :
        Cardinality(C) < options.minRegionSize}

\* C7: when exactly one 4-connected component C of the incoming map is
\* smaller than minRegionSize, the eliminator gives every pixel of C the
\* label of a component 4-adjacent to C and leaves all other pixels alone
EliminatorAbsorbsSmall ==
    (pc = "cleaned" /\ Cardinality(SmallComponents) = 1) =>
        LET C == CHOOSE D \in SmallComponents : TRUE
        IN  C # DOMAIN assigned =>
              /\ \E y \in DOMAIN assigned \ C :
                    /\ \E x \in C : Adjacent4(x, y, imageData.width)
                    /\ \A x \in C : segmentation[x] = assigned[y]
              /\ \A x \in DOMAIN assigned \ C : segmentation[x] = assigned[x]

IsTwoHalves ==
    /\ image.width >= 2 * 2
    /\ image.data = TwoHalves(image.width, image.height)

Column(x) == x % image.width

\* pixels x and y lie in the same half of the image
SameHalf(x, y) ==
    (Column(x) < image.width \div 2) <=> (Column(y) < image.width \div 2)

\* the two columns next to the boundary are classes of their own
ColumnClass(x) ==
    LET m == image.width \div 2
    IN  IF Column(x) < m - 1 THEN 0
        ELSE IF Column(x) = m - 1 THEN 1
        ELSE IF Column(x) = m THEN 2
        ELSE 3

ScenarioBOptions(sigma) ==
    /\ options.sigma = sigma
    /\ options.threshold = 2 * 5
    /\ options.minSize = 1

\* C8: the image whose left half is red and right half blue, with the
\* default sigma, threshold 10 and minSize 1, gives size = 2: the left half
\* is one segment and the right half the other
TwoHalvesTwoSegments ==
    (alg = "PF" /\ pc = "done" /\ IsTwoHalves
                /\ ScenarioBOptions(DefaultSigma)) =>
        /\ result.size = 2
        /\ \A x, y \in DOMAIN result.indexMap :
              result.indexMap[x] = result.indexMap[y] <=> SameHalf(x, y)

\* C8, as the code has it: with the default sigma the smoothing blends the
\* two columns next to the boundary, each of which becomes a segment of its
\* own between the two pure segments (size = 4); without smoothing
\* (sigma = 0) the two halves are the two segments
TwoHalvesBlurred ==
    (alg = "PF" /\ pc = "done" /\ IsTwoHalves) =>
        /\ ScenarioBOptions(DefaultSigma) =>
              /\ result.size = 4
              /\ \A x, y \in DOMAIN result.indexMap :
                    result.indexMap[x] = result.indexMap[y]
                        <=> ColumnClass(x) = ColumnClass(y)
        /\ ScenarioBOptions(0) =>
              /\ result.size = 2
              /\ \A x, y \in DOMAIN result.indexMap :
                    result.indexMap[x] = result.indexMap[y] <=> SameHalf(x, y)

\* the two-halves image segmented with the default sigma
TwoHalvesBlurredWitness ==
    /\ alg = "PF" /\ pc = "done" /\ IsTwoHalves
    /\ ScenarioBOptions(DefaultSigma)
    /\ result.size = 4
    /\ result.rgbData # image.data

\* C9: on the superpixel path, when width and height are at least
\* regionSize, size is at most the number of cluster centres
\* floor(W / regionSize) * floor(H / regionSize)
SuperpixelUpperBound ==
    (alg = "SLIC" /\ pc = "done"
        /\ image.width >= options.regionSize
        /\ image.height >= options.regionSize) =>
        result.size <= (image.width \div options.regionSize)
                          * (image.height \div options.regionSize)

\* a run at regionSize 2 or more that delivers as many segments as there
\* are centres
SuperpixelUpperBoundWitness ==
    /\ alg = "SLIC" /\ pc = "done"
    /\ options.regionSize >= 2
    /\ image.width >= options.regionSize
    /\ image.height >= options.regionSize
    /\ result.size >= 2
    /\ result.size = (image.width \div options.regionSize)
                        * (image.height \div options.regionSize)

IsUniform == \A x \in DOMAIN image.data : image.data[x] = image.data[0]

----------------------------------------------------------------------------
(* Frame conditions of the graph-based path *)

\* C11: computeSegmentation of the graph-based path leaves every byte of
\* the image buffer it was given as it received it, and the rgbData field
\* it delivers equals the pixels of the input image
InputBufferPreserved ==
    alg = "PF" =>
        /\ imageData.data = image.data
        /\ Delivered => result.rgbData = image.data

----------------------------------------------------------------------------
(* Configuration checks of the superpixel path *)

\* a regionSize that is not positive or exceeds the image width or height
InvalidRegionSize ==
    \/ options.regionSize <= 0
    \/ options.regionSize > image.width
    \/ options.regionSize > image.height

\* C12: superpixel segmentation with an invalid regionSize is rejected
\* before any computation: nothing is computed, nothing is delivered
InvalidConfigRejected ==
    (alg = "SLIC" /\ InvalidRegionSize) =>
        /\ pc = "loaded"
        /\ currentCenters = None
        /\ segmentation = None
        /\ result = None

----------------------------------------------------------------------------
(* Delivery of the result *)

\* computeSegmentation has been left, by return or by exception
Finished == pc \in {"done", "returned", "threw", "again"}

\* the calls the documentation promises for the handlers supplied
PromisedCalls ==
    (IF handlers.callback THEN <<"callback">> ELSE << >>)
        \o (IF handlers.toDataURL THEN <<"toDataURL">> ELSE << >>)

\* C14: when SLICSegmentation has computed the segmentation, the callback
\* (if supplied) has been called exactly once, then toDataURL (if supplied)
\* exactly once with the encoding of the delivered index map, and no
\* exception has left the entry point
ResultDeliveryOrder ==
    (alg = "SLIC" /\ Finished) =>
        /\ error = None
        /\ calls = PromisedCalls
        /\ handlers.toDataURL =>
              dataURL = getDataURL(imageData.width, imageData.height,
                                   segmentation)

\* C15: PreSegmentation throws 'Annotation URL missing' exactly when
\* options.annotation is absent, and with an annotation URL it goes on to
\* load the image
PreSegmentationThrows ==
    (alg = "PRE" /\ pc # "start") =>
        /\ error = AnnotationURLMissing <=> options.annotation = None
        /\ options.annotation # None =>
              pc \in {"loading", "loading annotation", "alerted", "done"}

----------------------------------------------------------------------------
(* Properties of the annotator *)

\* C13: decoding the three colour bytes the encoder wrote for a label
\* below 2^24 returns that label: every pixel of an exported annotation
\* decodes to the annotation of its segment
LabelRoundTrip ==
    (alg = "ANNOTATOR" /\ pc = "exported") =>
        \A i \in DOMAIN exported :
            LET label == annotator.annotations[annotator.indexMap[i]]
            IN  /\ label >= 0 /\ label < 2^24
                /\ _getEncodedLabel(exported[i]) = label

\* an export in which one segment carries the largest 24-bit label and
\* another a label that fills the two low bytes
LabelRoundTripWitness ==
    /\ alg = "ANNOTATOR" /\ pc = "exported"
    /\ \E i, j \in DOMAIN exported :
          /\ annotator.annotations[annotator.indexMap[i]] = 2^24 - 1
          /\ exported[i] = <<255, 255, 255, 255>>
          /\ annotator.annotations[annotator.indexMap[j]] = 257
          /\ exported[j] = <<1, 1, 0, 255>>

\* C16: setLabels leaves the annotation index of every segment as it was
SetLabelsKeepsAnnotations ==
    [][SetLabels => annotator'.annotations = annotator.annotations]_vars

\* the labels of a segment's pixels in an annotation image that no other
\* label outnumbers
MostFrequentLabels(sourceData, pixels) ==
    LET keys == {_getEncodedLabel(sourceData[x]) : x \in pixels}
    IN  {l \in keys : \A k \in keys :
            Histogram(sourceData, pixels, k) <= Histogram(sourceData, pixels, l)}

\* C17: when an annotation has been imported, the annotation of every
\* segment is a most frequent label of the segment's pixels, or 0 when
\* that label is not below the number of label definitions
ImportAssignsDominant ==
    (alg = "ANNOTATOR" /\ pc = "imported") =>
        \A i \in DOMAIN annotator.annotations :
            \E l \in MostFrequentLabels(annotator.sourceData,
                                        pixelsMap(annotator.indexMap, i)) :
                annotator.annotations[i]
                    = IF l >= annotator.numLabels THEN 0 ELSE l

----------------------------------------------------------------------------
(* Properties of the pixel graph and of the disjoint-set forest *)

\* pixels x and y are horizontal, vertical or diagonal neighbours
Adjacent8(x, y, w) ==
    /\ x # y
    /\ Abs((x % w) - (y % w)) <= 1
    /\ Abs((x \div w) - (y \div w)) <= 1

\* createEdges has run
EdgesBuilt == alg = "PF" /\ pc \notin {"loaded", "smoothed"}

\* the number of edges that join pixels x and y
EdgeCount(x, y) ==
    Cardinality({k \in 1..Len(edges) : {edges[k].a, edges[k].b} = {x, y}})

\* C18: createEdges writes exactly 4WH - 3W - 3H + 2 edges, one for every
\* pair of horizontally, vertically or diagonally adjacent pixels and none
\* for any other pair
PixelGraphExact ==
    EdgesBuilt =>
        /\ Len(edges) = edgeSize(imageData.width, imageData.height)
        /\ \A x, y \in DOMAIN imageData.data :
              EdgeCount(x, y) = IF Adjacent8(x, y, imageData.width) THEN 1 ELSE 0

\* a graph of an image at least two pixels wide and high, three in one
\* direction, with an edge to an upper right neighbour
PixelGraphExactWitness ==
    /\ EdgesBuilt /\ pc = "edges"
    /\ imageData.width >= 2 /\ imageData.height >= 2
    /\ imageData.width * imageData.height >= 6
    /\ Len(edges) = 11
    /\ \E k \in 1..Len(edges) : edges[k].b = edges[k].a - imageData.width + 1

\* the vertices that point to themselves
Roots(u) == {i \in DOMAIN u.p : u.p[i] = i}

\* the pixels whose findNode is r
Members(u, r) == {x \in DOMAIN u.p : Root(u.p, x) = r}

\* nodes counts the roots, size[r] the members of every root r, and the
\* sizes of the roots add up to the number of pixels
Bookkeeping(u) ==
    /\ u.nodes = Cardinality(Roots(u))
    /\ \A r \in Roots(u) : u.size[r] = Cardinality(Members(u, r))
    /\ SumOver(Roots(u), u.size) = Cardinality(DOMAIN u.p)

\* what one loop iteration on edge e did to the roots of its endpoints:
\* nothing, or the root of lower rank went under the other one, a under b
\* on a tie with b's rank raised by one
JoinedByRank(before, after, e) ==
    LET a == Root(before.p, e.a)
        b == Root(before.p, e.b)
    IN  \/ Roots(after) = Roots(before) /\ after.rank = before.rank
        \/ /\ before.rank[a] > before.rank[b]
           /\ Roots(after) = Roots(before) \ {b}
           /\ after.p[b] = a
           /\ after.rank = before.rank
        \/ /\ before.rank[a] < before.rank[b]
           /\ Roots(after) = Roots(before) \ {a}
           /\ after.p[a] = b
           /\ after.rank = before.rank
        \/ /\ before.rank[a] = before.rank[b]
           /\ Roots(after) = Roots(before) \ {a}
           /\ after.p[a] = b
           /\ after.rank = [before.rank EXCEPT ![b] = before.rank[b] + 1]

\* C19: after any number of iterations of either loop of segmentGraph,
\* universe.nodes is the number of roots, size[r] is the number of pixels
\* whose findNode is r, the root sizes add up to W*H, and every join put
\* the root of lower rank under the root of higher rank (a under b on a
\* tie, with b's rank raised)
DisjointSetBookkeeping ==
    /\ (alg = "PF" /\ pc = "sorted") =>
          /\ Bookkeeping(universe)
          /\ \A k \in 1..Len(edges) :
                LET before == MergePass(universe, edges, options.threshold, k - 1)
                    after  == MergePass(universe, edges, options.threshold, k)
                IN  Bookkeeping(after) /\ JoinedByRank(before, after, edges[k])
    /\ (alg = "PF" /\ pc = "merged") =>
          /\ Bookkeeping(universe)
          /\ \A k \in 1..Len(edges) :
                LET before == SmallPass(universe, edges, options.minSize, k - 1)
                    after  == SmallPass(universe, edges, options.minSize, k)
                IN  Bookkeeping(after) /\ JoinedByRank(before, after, edges[k])
    /\ (alg = "PF" /\ pc \in {"segmented", "indexed", "done", "returned"}) =>
          Bookkeeping(universe)

\* the ranks of the roots of edge k's endpoints before iteration k of the
\* bottom-up loop, when that iteration joined them, else << >>
JoinRanks(k) ==
    LET before == MergePass(universe, edges, options.threshold, k - 1)
        after  == MergePass(universe, edges, options.threshold, k)
    IN  IF after.nodes = before.nodes THEN << >>
        ELSE <<before.rank[Root(before.p, edges[k].a)],
               before.rank[Root(before.p, edges[k].b)]>>

\* a sorted edge list whose bottom-up loop joins on a tie of ranks, joins
\* a root of higher rank a to one of lower rank b, and the other way round
DisjointSetBookkeepingWitness ==
    /\ alg = "PF" /\ pc = "sorted"
    /\ \E k \in 1..Len(edges) : JoinRanks(k) = <<0, 0>>
    /\ \E k \in 1..Len(edges) : JoinRanks(k) = <<1, 0>>
    /\ \E k \in 1..Len(edges) : JoinRanks(k) = <<0, 1>>

RECURSIVE MergeTrace(_, _, _, _)
\* the universes before the bottom-up loop and after each of its
\* iterations from k on, appended to tr
MergeTrace(tr, es, c, k) ==
    IF k > Len(es) THEN tr
    ELSE MergeTrace(Append(tr, MergeEdge(tr[Len(tr)], es[k], c)), es, c, k + 1)

\* w <= t.w + c / t.n, for a weight w in units of 1/WScale
AtMost(w, t, c) == w * t.n <= t.w * t.n + c * WScale

\* iteration k joined the roots of its edge
Joined(tr, k) == tr[k + 1].nodes # tr[k].nodes

\* the last iteration up to k that joined inside what is component r
\* after iteration k
LastJoin(tr, es, k, r) ==
    LET js == {j \in 1..k : Joined(tr, j) /\ Root(tr[k + 1].p, es[j].a) = r}
    IN  CHOOSE j \in js : \A i \in js : i <= j

\* the merge predicate and the thresholds along a trace of the loop
ThresholdRule(tr, es, c) ==
    /\ \A k \in 1..Len(es) :
          LET a == Root(tr[k].p, es[k].a)
              b == Root(tr[k].p, es[k].b)
          IN  /\ a = b => ~Joined(tr, k)
              /\ a # b =>
                    (Joined(tr, k) <=>
                        /\ AtMost(es[k].w, tr[k].threshold[a], c)
                        /\ AtMost(es[k].w, tr[k].threshold[b], c))
    /\ \A k \in 0..Len(es) : \A r \in Roots(tr[k + 1]) :
          tr[k + 1].threshold[r] =
              IF tr[k + 1].size[r] = 1
                 THEN [w |-> 0, n |-> 1]
                 ELSE [w |-> es[LastJoin(tr, es, k, r)].w,
                       n |-> tr[k + 1].size[r]]

\* C20: in the bottom-up loop an edge between different roots ra and rb is
\* joined exactly when its weight is at most threshold[ra] and at most
\* threshold[rb]; after every iteration threshold[r] is c for a root of
\* size 1 and, for any other root, the weight of the edge that last joined
\* r's component plus c / size[r]
MergePredicateAndThreshold ==
    (alg = "PF" /\ pc = "sorted") =>
        ThresholdRule(MergeTrace(<<universe>>, edges, options.threshold, 1),
                      edges, options.threshold)

\* a pass that joins an edge of positive weight into a component of three
\* or more pixels and refuses a later edge between different roots
MergePredicateAndThresholdWitness ==
    /\ alg = "PF" /\ pc = "sorted"
    /\ options.threshold > 0
    /\ LET tr == MergeTrace(<<universe>>, edges, options.threshold, 1)
       IN  \E j, k \in 1..Len(edges) :
              /\ j < k
              /\ Joined(tr, j)
              /\ edges[j].w > 0
              /\ tr[j + 1].size[Root(tr[j + 1].p, edges[j].a)] >= 3
              /\ ~Joined(tr, k)
              /\ Root(tr[k].p, edges[k].a) # Root(tr[k].p, edges[k].b)

----------------------------------------------------------------------------
(* Properties of the clustering loop *)

\* the colour term `appearance` of the distance of pixel x to the centre,
\* times the square of the centre's mass
Appearance(lab, x, centre) ==
    Sq(lab[x][1] * centre.m - centre.s[3])
        + Sq(lab[x][2] * centre.m - centre.s[4])
        + Sq(lab[x][3] * centre.m - centre.s[5])

\* the term `spatial` of the distance of pixel x to the centre
Spatial(x, imW, centre) ==
    Sq((x % imW) - RoundCoord(centre.s[1], centre.m))
        + Sq((x \div imW) - RoundCoord(centre.s[2], centre.m))

\* C21: after a round of the clustering loop, the colour and the spatial
\* parameter of every cluster are at least the colour and the spatial term
\* of the distance between each pixel assigned to the cluster in this round
\* and the centre the round used for it, in the squared units in which the
\* parameters divide these terms
ParamsRaisedToObserved ==
    [][ClusteringRound =>
          \A x \in DOMAIN segmentation' :
              LET k == segmentation'[x]
              IN  k \in DOMAIN currentCenters =>
                  /\ Appearance(labOf(imageData), x, currentCenters[k])
                         <= clusterParams'[k][1] * Sq(currentCenters[k].m)
                  /\ Spatial(x, imageData.width, currentCenters[k])
                         <= clusterParams'[k][2]]_vars

\* the centres a and b have the same five coordinates
SameCentre(a, b) == \A k \in 1..5 : a.s[k] * b.m = b.s[k] * a.m

\* the centre c is the mean (x, y, L, a, b) of the pixels in mine
IsMeanOf(c, lab, mine, imW) ==
    LET coord == [x \in mine |-> <<x % imW, x \div imW,
                                   lab[x][1], lab[x][2], lab[x][3]>>]
    IN  \A k \in 1..5 :
            c.s[k] * Cardinality(mine)
                = SumOver(mine, [x \in mine |-> coord[x][k]]) * c.m

\* C22: in every round of the clustering loop, a cluster without pixels
\* has the same centre after the centre update as before it, and a cluster
\* with pixels gets the mean of its pixels
ZeroMassKeepsCentre ==
    [][ClusteringRound =>
          \A r \in DOMAIN currentCenters :
              LET mine == {x \in DOMAIN segmentation' : segmentation'[x] = r}
              IN  IF mine = {}
                     THEN SameCentre(currentCenters'[r], currentCenters[r])
                     ELSE IsMeanOf(currentCenters'[r], labOf(imageData),
                                   mine, imageData.width)]_vars

----------------------------------------------------------------------------
(* Properties of the scan of eliminateSmallRegions *)

\* the body of the pixel loop for one pixel, with the seeds met so far and
\* the queue `segment` each seed's fill ended with
TraceStep(prev, seg, minRegionSize, pixel, imW, imH) ==
    IF prev.cleaned[pixel] # 0 THEN prev
    ELSE [cleaned  |-> CleanPixel(seg, minRegionSize, prev.cleaned, pixel, imW, imH),
          seeds    |-> prev.seeds \cup {pixel},
          segments |-> (pixel :> Expand(seg, seg[pixel],
                                        [prev.cleaned EXCEPT ![pixel] = seg[pixel] + 1],
                                        <<pixel>>, 0, imW, imH).segment)
                           @@ prev.segments]

RECURSIVE ScanTrace(_, _, _, _, _)
\* cleaned, seeds and queues after the pixel loop has handled pixels
\* 0..pixel-1
ScanTrace(seg, minRegionSize, imW, imH, pixel) ==
    IF pixel = 0
        THEN [cleaned |-> [x \in 0..(imW * imH - 1) |-> 0],
              seeds |-> {}, segments |-> << >>]
        ELSE TraceStep(ScanTrace(seg, minRegionSize, imW, imH, pixel - 1),
                       seg, minRegionSize, pixel - 1, imW, imH)

\* the trace of the scan that has just run
LastScan ==
    ScanTrace(assigned, options.minRegionSize, imageData.width,
              imageData.height, NumPixels)

\* one fill per component, each queue its seed's component without
\* repetition, every pixel queued once
OneFillPerComponent(t, m, w) ==
    /\ \A C \in Components(m, w) : Cardinality(C \cap t.seeds) = 1
    /\ \A s \in t.seeds :
          /\ Range(t.segments[s]) = Grow(m, w, {s})
          /\ Len(t.segments[s]) = Cardinality(Range(t.segments[s]))
          /\ Len(t.segments[s]) <= Cardinality(DOMAIN m)
    /\ \A x \in DOMAIN m :
          Cardinality({s \in t.seeds : x \in Range(t.segments[s])}) = 1
    /\ SumOver(t.seeds, [s \in t.seeds |-> Len(t.segments[s])])
          = Cardinality(DOMAIN m)

\* C23: for a label map with non-negative labels, the scan of
\* eliminateSmallRegions seeds exactly one fill in every 4-connected
\* component, the queue of a fill holds the pixels of the seed's component
\* once each, so every pixel is queued exactly once over the whole scan and
\* the queue index never exceeds numPixels; the trace ends with the map the
\* eliminator returned
SinglePassElimination ==
    (pc = "cleaned" /\ \A x \in DOMAIN assigned : assigned[x] >= 0) =>
        /\ OneFillPerComponent(LastScan, assigned, imageData.width)
        /\ segmentation = [x \in DOMAIN assigned |-> LastScan.cleaned[x] - 1]

\* several fills, one of several pixels and one too small
SeveralFills(t, minRegionSize) ==
    /\ Cardinality(t.seeds) >= 2
    /\ \E s \in t.seeds : Len(t.segments[s]) >= 3
    /\ \E s \in t.seeds : Len(t.segments[s]) < minRegionSize

\* a scan over several components, one of them of several pixels and one
\* small enough to be relabelled
SinglePassEliminationWitness ==
    /\ alg = "LABELS" /\ pc = "cleaned"
    /\ SeveralFills(LastScan, options.minRegionSize)
    /\ segmentation # assigned

----------------------------------------------------------------------------
(* Properties of the label compactors *)

\* the first pixel in scan order that carries label l in the map m
FirstOccurrence(m, l) ==
    CHOOSE x \in DOMAIN m : m[x] = l /\ \A y \in DOMAIN m : m[y] = l => x <= y

\* dense numbers the raw labels 0..count-1 in the order in which they first
\* occur in raw
FirstOccurrenceOrder(raw, dense, count) ==
    /\ DOMAIN dense = DOMAIN raw
    /\ dense[0] = 0
    /\ LabelsOf(dense) = 0..(count - 1)
    /\ \A k \in 1..(count - 1) :
          FirstOccurrence(dense, k) > FirstOccurrence(dense, k - 1)
    /\ \A x, y \in DOMAIN raw : (dense[x] = dense[y]) <=> (raw[x] = raw[y])
    /\ count = Cardinality(LabelsOf(raw))

\* C24: remapLabels, and createIndexMap over the root ids, give dense ids
\* in order of first occurrence in scan order: pixel 0 gets id 0, each id
\* k > 0 first appears after the first appearance of k-1, two pixels share
\* an id exactly when they shared a raw label, and the count is the number
\* of distinct raw labels
CompactorOrder ==
    /\ (alg \in {"SLIC", "LABELS"} /\ pc = "remapped") =>
          FirstOccurrenceOrder(
              eliminateSmallRegions(assigned, options.minRegionSize, NumPixels,
                                    imageData.width, imageData.height),
              segmentation, numSegments)
    /\ (alg = "PF" /\ pc = "indexed") =>
          FirstOccurrenceOrder([x \in DOMAIN indexMap |-> Root(universe.p, x)],
                               indexMap, universe.nodes)

\* remapLabels has renumbered three raw labels that first occur in
\* descending order
CompactorOrderWitness ==
    /\ alg = "LABELS" /\ pc = "remapped"
    /\ options.minRegionSize = 1
    /\ numSegments = 3
    /\ assigned[0] = 9
    /\ FirstOccurrence(assigned, 3) < FirstOccurrence(assigned, 0)
    /\ \E x \in DOMAIN assigned : x > FirstOccurrence(assigned, 0) /\ assigned[x] = 9

\* C25: for a label map with non-negative labels, every 4-connected
\* component of equally labelled pixels in the output of
\* eliminateSmallRegions has at least minRegionSize pixels, except possibly
\* the component that contains pixel 0
EliminatorGuarantee ==
    (pc = "cleaned" /\ \A x \in DOMAIN assigned : assigned[x] >= 0) =>
        \A C \in Components(segmentation, imageData.width) :
            Cardinality(C) >= options.minRegionSize \/ 0 \in C

\* a component smaller than minRegionSize that does not contain pixel 0
\* has been absorbed, and the component of pixel 0 is large enough itself
EliminatorGuaranteeWitness ==
    /\ alg = "LABELS" /\ pc = "cleaned"
    /\ \E C \in SmallComponents : 0 \notin C
    /\ \A C \in Components(segmentation, imageData.width) :
          Cardinality(C) >= options.minRegionSize
    /\ Cardinality(LabelsOf(segmentation)) >= 2

RECURSIVE Grow8(_, _, _)
\* the pixels of M joined to a pixel of S by a path of horizontally,
\* vertically or diagonally adjacent pixels of M
Grow8(M, w, S) ==
    LET T == S \cup {y \in M : \E x \in S : Adjacent8(x, y, w)}
    IN  IF T = S THEN S ELSE Grow8(M, w, T)

\* both passes of segmentGraph have run
Segmented == alg = "PF" /\ pc \in {"segmented", "indexed", "done", "returned"}

\* C26: after both passes of segmentGraph, any two pixels with the same
\* root are joined by a path of horizontally, vertically or diagonally
\* adjacent pixels that all have that root
SegmentsConnected ==
    Segmented =>
        \A r \in Roots(universe) :
            Grow8(Members(universe, r), imageData.width, {r})
                = Members(universe, r)

\* several segments, one of them held together by a diagonal step only:
\* it has two pixels that no path of horizontal and vertical steps inside
\* the segment joins
SegmentsConnectedWitness ==
    /\ Segmented /\ pc = "segmented"
    /\ universe.nodes >= 2
    /\ \E r \in Roots(universe) :
          LET M == Members(universe, r)
          IN  /\ Cardinality(M) >= 2
              /\ \E x \in M : \A y \in M \ {x} : ~Adjacent4(x, y, imageData.width)

----------------------------------------------------------------------------
(* Properties of the edit history of Annotator *)

\* an Annotator exists and no annotation is loading
WidgetReady == alg = "WIDGET" /\ pc # "importing"

\* the call returned false and changed neither the history, the cursor nor
\* the annotation
ReturnsFalseOnly(after, before) == after = [before EXCEPT !.returned = "false"]

\* C27: with maxHistoryRecord >= 1, after any sequence of label edits,
\* undo and redo calls, -1 <= currentHistoryRecord <= history.length - 1
\* and history.length <= maxHistoryRecord; undo at currentHistoryRecord =
\* -1 and redo at currentHistoryRecord = history.length - 1 return false
\* and change neither the history nor the annotation
HistoryBounds ==
    (alg = "WIDGET" /\ widget.maxHistoryRecord >= 1) =>
        /\ 0 - 1 <= widget.currentHistoryRecord
        /\ widget.currentHistoryRecord <= Len(widget.history) - 1
        /\ Len(widget.history) <= widget.maxHistoryRecord
        /\ widget.currentHistoryRecord = 0 - 1 =>
              ReturnsFalseOnly(undo(widget), widget)
        /\ widget.currentHistoryRecord = Len(widget.history) - 1 =>
              ReturnsFalseOnly(redo(widget), widget)

\* the history is full, every record of it has been undone, and the undo
\* that followed returned false
HistoryBoundsWitness ==
    /\ WidgetReady
    /\ widget.maxHistoryRecord >= 2
    /\ Len(widget.history) = widget.maxHistoryRecord
    /\ widget.currentHistoryRecord = 0 - 1
    /\ widget.returned = "false"
    /\ ~widget.layerReset

RECURSIVE UndoTimes(_, _)
\* the Annotator after k consecutive calls of undo
UndoTimes(w, k) == IF k = 0 THEN w ELSE UndoTimes(undo(w), k - 1)

RECURSIVE RedoTimes(_, _)
\* the Annotator after k consecutive calls of redo
RedoTimes(w, k) == IF k = 0 THEN w ELSE RedoTimes(redo(w), k - 1)

\* undone, which k undo calls made of w1, has the labels before, and k
\* redo calls make the labels of w1 of it
RestoredBy(before, w1, undone, k) ==
    /\ EncodedLabels(undone) = before
    /\ EncodedLabels(RedoTimes(undone, k)) = EncodedLabels(w1)

\* C28: after k <= maxHistoryRecord label edits that each changed at least
\* one pixel, k consecutive undo calls restore the encoded label of every
\* pixel to its value before the first of those edits, and k consecutive
\* redo calls then restore every pixel to its value after the last edit
UndoRedoRoundTrip ==
    WidgetReady =>
        \A k \in 1..Len(widget.edited) :
            RestoredBy(widget.edited[Len(widget.edited) - k + 1], widget,
                       UndoTimes(widget, k), k)

\* as many edits as the history holds have been made in a row, each
\* changing a pixel, the oldest of them on labels other than the initial
\* fill
UndoRedoRoundTripWitness ==
    /\ WidgetReady
    /\ widget.maxHistoryRecord >= 2
    /\ Len(widget.edited) = widget.maxHistoryRecord
    /\ Len(widget.history) = widget.maxHistoryRecord
    /\ widget.history[1].prev # _fillArray(Len(widget.history[1].prev), 0)
    /\ widget.edited[1] # EncodedLabels(widget)

\* the records of w up to the cursor, those a push keeps
UpToCursor(w) == SubSeq(w.history, 1, w.currentHistoryRecord + 1)

\* q without its last entry
Front(q) == SubSeq(q, 1, Len(q) - 1)

\* C29: after a label edit that changes at least one pixel,
\* currentHistoryRecord = history.length - 1 and the records that were
\* ahead of the cursor are gone: the history is the records up to the old
\* cursor, without the oldest when the history was full, and the record of
\* the edit, so a redo changes nothing; an edit that changes no pixel adds
\* no record and leaves the cursor and the records as they were
EditDiscardsRedoBranch ==
    [][UpdateAnnotation =>
          IF EncodedLabels(widget') # EncodedLabels(widget)
              THEN /\ widget'.currentHistoryRecord = Len(widget'.history) - 1
                   /\ Len(widget'.history) >= 1
                   /\ Front(widget'.history)
                          = IF Len(UpToCursor(widget)) = widget.maxHistoryRecord
                               THEN Tail(UpToCursor(widget))
                               ELSE UpToCursor(widget)
                   /\ widget'.history[Len(widget'.history)].prev
                          # widget'.history[Len(widget'.history)].next
                   /\ ReturnsFalseOnly(redo(widget'), widget')
              ELSE /\ widget'.history = widget.history
                   /\ widget'.currentHistoryRecord = widget.currentHistoryRecord
          ]_vars

\* an edit has changed a pixel of labels that earlier edits had made, and
\* its record is the only one of a history that holds more: the records of
\* the earlier edits, undone before, are gone
EditDiscardsRedoBranchWitness ==
    /\ WidgetReady /\ ~widget.layerReset
    /\ widget.maxHistoryRecord >= 2
    /\ Len(widget.edited) = 1
    /\ \E p \in DOMAIN widget.edited[1] : widget.edited[1][p] # 0
    /\ Len(widget.history) = 1
    /\ widget.currentHistoryRecord = 0


\* C30: once the onload handler of import has run, the history of the
\* annotator is empty and currentHistoryRecord = -1, so an undo or a redo
\* issued right after the import returns false and leaves the imported
\* annotation as it is, whatever edits came before the import
ImportResetsHistory ==
    (alg = "WIDGET" /\ pc = "imported") =>
        /\ widget.history = << >>
        /\ widget.currentHistoryRecord = -1
        /\ ReturnsFalseOnly(undo(widget), widget)
        /\ ReturnsFalseOnly(redo(widget), widget)

============================================================================
